---- MODULE Spec2Model ----
(***************************************************************************)
(* Model of the WorldWind Python globe (python-vispy): the coordinate      *)
(* transform, the TravelRoute manager, the extruded polygon and the friend *)
(* placemark registry.                                                     *)
(*                                                                         *)
(* Numbers.  The program computes with Python floats.  The model computes  *)
(* with fixed-point integers: a real v is the integer v * One, One = 10^8, *)
(* and an angle in degrees d is the integer d * DegOne, DegOne = 10^6.     *)
(* The math library functions are computed (series and bisection), never   *)
(* assumed, so that a conversion and its inverse are two computations.     *)
(***************************************************************************)
EXTENDS Integers, Sequences, FiniteSets, TLC

(***************************************************************************)
(* Fixed-point arithmetic standing for Python float arithmetic.            *)
(***************************************************************************)
H == 10000
One == H * H
DegOne == 1000000

Abs(x) == IF x < 0 THEN -x ELSE x
Sgn(x) == IF x < 0 THEN -1 ELSE IF x > 0 THEN 1 ELSE 0
Max(a, b) == IF a >= b THEN a ELSE b
Min(a, b) == IF a <= b THEN a ELSE b

\* a * b, rounded to the nearest unit (both operands are split so that no
\* intermediate product leaves the 32-bit range).
Mul[a \in Int, b \in Int] ==
    LET A == Abs(a)
        B == Abs(b)
        a1 == A \div H
        a0 == A % H
        b1 == B \div H
        b0 == B % H
    IN  Sgn(a) * Sgn(b) *
        (a1 * b1 + ((a1 * b0 + a0 * b1 + ((a0 * b0) \div H) + (H \div 2)) \div H))

\* The fractional digits of r / B, r < B, by long division.
DivDigits[r \in Int, B \in Int, k \in Int, acc \in Int] ==
    IF k = 0
    THEN acc + (IF 2 * r >= B THEN 1 ELSE 0)
    ELSE DivDigits[(r * 10) % B, B, k - 1, acc * 10 + ((r * 10) \div B)]

\* Does a / b stay in the representable range?
DivFits[a \in Int, b \in Int] == b # 0 /\ Abs(b) <= 2 * One /\ (Abs(a) \div Abs(b)) < 20

\* a / b for b # 0 (callers test DivFits).
Div[a \in Int, b \in Int] ==
    LET A == Abs(a)
        B == Abs(b)
    IN  Sgn(a) * Sgn(b) * ((A \div B) * One + DivDigits[A % B, B, 8, 0])

\* i / m for Python ints i, m (true division), m > 0.
IntDiv[i \in Int, m \in Int] == (i * One + (m \div 2)) \div m

PI == 314159265
HalfPI == 157079633
QuarterPI == 78539816
TwoPI == 628318531
SqrtHalf == 70710678
\* x * (k1/10^4 + k2/10^8 + k3/10^12), rounded once: multiplication by a
\* constant known to twelve digits.
MulK[x \in Int, k1 \in Int, k2 \in Int, k3 \in Int] ==
    LET A == Abs(x)
        a1 == A \div H
        a0 == A % H
        t1 == a1 * k2 + a0 * k1
        t2 == a1 * k3 + a0 * k2
    IN  Sgn(x) * (a1 * k1 + (t1 \div H) + (((t1 % H) * H + t2 + (One \div 2)) \div One))

\* math.radians: degrees (DegOne units) to radians (One units); pi/180 =
\* 0.0174532925199 and the units differ by 100.
Radians[d \in Int] == MulK[d, 17453, 2925, 1994]
\* math.degrees: radians (One units) to degrees (DegOne units); 180/pi =
\* 57.2957795130.
Degrees[r \in Int] == MulK[r, 5729, 5779, 5130]

\* Series for sin and cos on [0, pi/4].
SinT[y \in Int] ==
    LET y2 == Mul[y, y]
        p7 == One - (y2 \div 210)
        p6 == One - (Mul[y2, p7] \div 156)
        p5 == One - (Mul[y2, p6] \div 110)
        p4 == One - (Mul[y2, p5] \div 72)
        p3 == One - (Mul[y2, p4] \div 42)
        p2 == One - (Mul[y2, p3] \div 20)
        p1 == One - (Mul[y2, p2] \div 6)
    IN  Mul[y, p1]

CosT[y \in Int] ==
    LET y2 == Mul[y, y]
        p7 == One - (y2 \div 182)
        p6 == One - (Mul[y2, p7] \div 132)
        p5 == One - (Mul[y2, p6] \div 90)
        p4 == One - (Mul[y2, p5] \div 56)
        p3 == One - (Mul[y2, p4] \div 30)
        p2 == One - (Mul[y2, p3] \div 12)
        p1 == One - (Mul[y2, p2] \div 2)
    IN  p1

\* Reduction of an angle to (-pi, pi].
Reduce[x \in Int] ==
    LET m == (x + PI) % TwoPI
    IN  IF m = 0 THEN PI ELSE m - PI

\* sin and cos on [0, pi/2].
SinQ[y \in Int] == IF y <= QuarterPI THEN SinT[y] ELSE CosT[HalfPI - y]
CosQ[y \in Int] == SinQ[HalfPI - y]

SinRaw[x \in Int] ==
    LET xr == Reduce[x]
        y == Abs(xr)
    IN  Sgn(xr) * SinQ[IF y > HalfPI THEN PI - y ELSE y]

CosRaw[x \in Int] ==
    LET y == Abs(Reduce[x])
    IN  (IF y > HalfPI THEN -1 ELSE 1) * CosQ[IF y > HalfPI THEN PI - y ELSE y]

\* math.sin, math.cos.  No double is a multiple of pi or an odd multiple of
\* pi/2, so the sine of a non-zero double and the cosine of any double are
\* never exactly 0 (math.sin(math.pi) = 1.2e-16, math.cos(math.pi/2) =
\* 6.1e-17): where the series rounds to 0 the smallest unit stands for that
\* tiny value, with the sign of the argument (math.sin(-math.pi) = -1.2e-16;
\* the arguments of the program are in [-pi, pi] or far from a multiple of pi).
NonZero[v \in Int, tiny \in Int] == IF v # 0 THEN v ELSE tiny

Sin[x \in Int] == IF x = 0 THEN 0 ELSE NonZero[SinRaw[x], Sgn(x)]

Cos[x \in Int] == NonZero[CosRaw[x], 1]

\* Bisection: the largest a in [lo, hi] with SinQ(a) <= z (SinQ(lo) <= z).
BisectSin[z \in Int, lo \in Int, hi \in Int] ==
    IF hi - lo <= 1
    THEN IF SinQ[hi] <= z THEN hi ELSE lo
    ELSE LET mid == (lo + hi) \div 2
         IN  IF SinQ[mid] <= z THEN BisectSin[z, mid, hi] ELSE BisectSin[z, lo, mid]

\* Bisection: the smallest a in [lo, hi] with CosQ(a) <= z (CosQ(hi) <= z).
BisectCos[z \in Int, lo \in Int, hi \in Int] ==
    IF hi - lo <= 1
    THEN IF CosQ[lo] <= z THEN lo ELSE hi
    ELSE LET mid == (lo + hi) \div 2
         IN  IF CosQ[mid] <= z THEN BisectCos[z, lo, mid] ELSE BisectCos[z, mid, hi]

AsinPos[z \in Int] ==
    IF z <= SqrtHalf THEN BisectSin[z, 0, HalfPI] ELSE HalfPI - BisectCos[z, 0, HalfPI]
AcosPos[z \in Int] == HalfPI - AsinPos[z]

\* math.asin, math.acos on [-1, 1] (callers test the domain: outside it the
\* library raises ValueError).
InDomain(z) == -One <= z /\ z <= One
Asin[z \in Int] == Sgn(z) * AsinPos[Abs(z)]
Acos[z \in Int] == IF z >= 0 THEN AcosPos[z] ELSE PI - AcosPos[-z]

\* atan of q in [0, 1]: the largest a in [lo, hi] with sin a <= q cos a.
BisectTan[q \in Int, lo \in Int, hi \in Int] ==
    IF hi - lo <= 1
    THEN IF SinQ[hi] <= Mul[q, CosQ[hi]] THEN hi ELSE lo
    ELSE LET mid == (lo + hi) \div 2
         IN  IF SinQ[mid] <= Mul[q, CosQ[mid]]
             THEN BisectTan[q, mid, hi]
             ELSE BisectTan[q, lo, mid]

\* atan(small / big) for 0 <= small <= big, big > 0: an angle in [0, pi/4].
AtanRatio[small \in Int, big \in Int] == BisectTan[Div[small, big], 0, QuarterPI]

\* The angle of (ax, ay) in the first quadrant, ax, ay >= 0.
AtanPos[ay \in Int, ax \in Int] ==
    IF ax = 0 /\ ay = 0 THEN 0
    ELSE (IF ay <= ax THEN 0 ELSE HalfPI)
         + (IF ay <= ax THEN 1 ELSE -1) * AtanRatio[Min(ax, ay), Max(ax, ay)]

\* math.atan2(y, x).
Atan2[y \in Int, x \in Int] ==
    (IF y < 0 THEN -1 ELSE 1)
    * ((IF x < 0 THEN PI ELSE 0) + (IF x < 0 THEN -1 ELSE 1) * AtanPos[Abs(y), Abs(x)])

\* Bisection: the largest s in [lo, hi] with s * s <= v (lo * lo <= v).
BisectSqrt[v \in Int, lo \in Int, hi \in Int] ==
    IF hi - lo <= 1
    THEN IF Mul[hi, hi] <= v THEN hi ELSE lo
    ELSE LET mid == (lo + hi) \div 2
         IN  IF Mul[mid, mid] <= v THEN BisectSqrt[v, mid, hi] ELSE BisectSqrt[v, lo, mid]

\* math.sqrt of v in [0, 16].  As in floats, sqrt(x * x) >= |x|.
Sqrt[v \in Int] == IF v = 0 THEN 0 ELSE BisectSqrt[v, 0, 4 * One]

(***************************************************************************)
(* Geographic points.  A GeoPoint is the tuple <<latitude, longitude>> in  *)
(* DegOne units, as the (lat, lon) tuples of the source.                   *)
(***************************************************************************)
Deg(whole, millionths) == whole * DegOne + millionths

Saskatchewan == <<Deg(55, 0), Deg(-106, 0)>>        \* the placemark of worldwind.py
NewYork == <<Deg(40, 712800), -Deg(74, 6000)>>      \* (40.7128, -74.0060)
NearSask == <<Deg(55, 0), -Deg(105, 970000)>>       \* 0.0003 rad from Saskatchewan
AntiSask == <<Deg(-55, 0), Deg(74, 0)>>             \* the antipode of Saskatchewan
NorthPole == <<Deg(90, 0), Deg(0, 0)>>
FarSouth == <<Deg(-89, 0), Deg(-179, 0)>>
FarNorth == <<Deg(89, 0), Deg(1, 0)>>               \* the antipode of FarSouth
OffGlobe == <<Deg(91, 0), Deg(181, 0)>>             \* no valid GeoPoint
SouthPole == <<Deg(-90, 0), Deg(0, 0)>>
NearPole == <<Deg(89, 999900), Deg(10, 0)>>         \* (89.9999, 10)
DateLineEast == <<Deg(45, 0), Deg(180, 0)>>
DateLineWest == <<Deg(45, 0), Deg(-180, 0)>>
PoleEast == <<Deg(90, 0), Deg(50, 0)>>              \* the north pole again

ValidLat(lat) == -90 * DegOne <= lat /\ lat <= 90 * DegOne
ValidLon(lon) == -180 * DegOne <= lon /\ lon <= 180 * DegOne
ValidPoint(p) == ValidLat(p[1]) /\ ValidLon(p[2])

\* self.earth_radius = 1.0
earth_radius == One
\* the altitude offsets added to earth_radius: routes 0.02, friend markers 0.05
RouteOffset == 2000000
MarkerOffset == 5000000
PhotoOffset == 10000000
\* abs(theta) < 0.001
SlerpThreshold == 100000

(***************************************************************************)
(* WorldWind.latlon_to_xyz                                                 *)
(***************************************************************************)
latlon_to_xyz(lat, lon, radius) ==
    LET lat_rad == Radians[lat]
        lon_rad == Radians[lon]
    IN  << Mul[Mul[radius, Cos[lat_rad]], Cos[lon_rad]],
           Mul[Mul[radius, Cos[lat_rad]], Sin[lon_rad]],
           Mul[radius, Sin[lat_rad]] >>

(***************************************************************************)
(* WorldWind.xyz_to_latlon (WorldWindVR.xyz_to_latlon has the same         *)
(* statements).  The fixed-point numbers above cover the magnitudes near 1 *)
(* of the globe; a Python float also has an exponent.  The arguments are   *)
(* therefore the floats x * 10^k, y * 10^k, z * 10^k with one decimal      *)
(* exponent k.  Only x**2 depends on k:                                    *)
(*   2k > 308     x**2 is beyond the largest float: float.__pow__ raises   *)
(*                OverflowError (1e200 ** 2)                               *)
(*   2k < -324    x**2 is below the smallest float 5e-324 and is 0.0       *)
(*   2k = -320    x**2 is a subnormal float, a multiple of 4.94e-324 (of   *)
(*                DenormalQuantum units of 1e-328): (1e-160) ** 2 is       *)
(*                2024 * 4.94e-324 = 9.99989e-321                          *)
(*   k = 0        the fixed-point product                                  *)
(* sqrt halves the exponent, and z / r and atan2(y, x) do not depend on k. *)
(* The result is [st |-> "ok", lat, lon] or [st |-> the exception raised]. *)
(***************************************************************************)
FloatMaxExp == 308
FloatMinExp == -324
DenormalExp == -320
DenormalQuantum == 49407

\* Rounding to the nearest subnormal float.
Quantised[q \in Int] == ((q + (DenormalQuantum \div 2)) \div DenormalQuantum) * DenormalQuantum

\* x**2 for the float x * 10^k.
Squared(x, k) ==
    IF x = 0 THEN [st |-> "ok", v |-> 0]
    ELSE IF 2 * k > FloatMaxExp THEN [st |-> "OverflowError", v |-> 0]
    ELSE IF 2 * k < FloatMinExp THEN [st |-> "ok", v |-> 0]
    ELSE IF 2 * k = DenormalExp THEN [st |-> "ok", v |-> Quantised[Mul[x, x]]]
    ELSE [st |-> "ok", v |-> Mul[x, x]]

\* x**2 + y**2 + z**2
SumOfSquares(sx, sy, sz) ==
    IF "OverflowError" \in {sx.st, sy.st, sz.st}
    THEN [st |-> "OverflowError", v |-> 0]
    ELSE [st |-> "ok", v |-> sx.v + sy.v + sz.v]

\* "Avoid division by zero", "Calculate latitude", "Calculate longitude"
LatLonAt(x, y, z, r) ==
    IF r = 0 THEN [st |-> "ok", lat |-> 0, lon |-> 0]
    ELSE IF ~DivFits[z, r] THEN [st |-> "ValueError", lat |-> 0, lon |-> 0]
    ELSE IF ~InDomain(Div[z, r]) THEN [st |-> "ValueError", lat |-> 0, lon |-> 0]
    ELSE [st |-> "ok", lat |-> Degrees[Asin[Div[z, r]]], lon |-> Degrees[Atan2[y, x]]]

\* "Calculate radius" and the rest
LatLonBy(x, y, z, r2) ==
    IF r2.st # "ok" THEN [st |-> r2.st, lat |-> 0, lon |-> 0] ELSE LatLonAt(x, y, z, Sqrt[r2.v])

xyz_to_latlon(x, y, z, k) ==
    LatLonBy(x, y, z, SumOfSquares(Squared(x, k), Squared(y, k), Squared(z, k)))

(***************************************************************************)
(* TravelRoute._slerp, in the order of its statements.  The result is      *)
(* [st |-> "ok", lat, lon], or [st |-> "ValueError"] when math.asin is     *)
(* given a z outside [-1, 1], or [st |-> "unstable"] when sin(theta) is so *)
(* small that the weights a, b leave the representable range: in floats    *)
(* the weights are then about 1e16 and a*x1 + b*x2 is the rounding noise   *)
(* of x1 + x2 scaled by them, e.g. _slerp(30, 40, -30, -140, 0.5) computes *)
(* (x, y, z) = (1, -2, 0) and _slerp(-89, -179, 89, 1, 0.8) raises         *)
(* ValueError from math.asin.                                              *)
(***************************************************************************)
\* "Convert to Cartesian": (x1, y1, z1) and (x2, y2, z2)
Cartesian(lat_rad, lon_rad) ==
    << Mul[Cos[lat_rad], Cos[lon_rad]], Mul[Cos[lat_rad], Sin[lon_rad]], Sin[lat_rad] >>

\* "Dot product", "Clamp dot product", "Angle between vectors"
Theta(p1, p2) ==
    Acos[Max(-One, Min(One, Mul[p1[1], p2[1]] + Mul[p1[2], p2[2]] + Mul[p1[3], p2[3]]))]

\* A faulty variant: the two weights exchanged.
QuotientsExchanged(na, nb, sin_theta) ==
    IF DivFits[na, sin_theta] /\ DivFits[nb, sin_theta]
    THEN [st |-> "ok", a |-> Div[nb, sin_theta], b |-> Div[na, sin_theta]]
    ELSE [st |-> "unstable", a |-> 0, b |-> 0]

\* a = sin((1 - t) * theta) / sin_theta, b = sin(t * theta) / sin_theta
Quotients(na, nb, sin_theta) ==
    IF DivFits[na, sin_theta] /\ DivFits[nb, sin_theta]
    THEN [st |-> "ok", a |-> Div[na, sin_theta], b |-> Div[nb, sin_theta]]
    ELSE [st |-> "unstable", a |-> 0, b |-> 0]

\* The weights of the two vectors: linear when abs(theta) < 0.001.
Weights(t, theta) ==
    IF Abs(theta) < SlerpThreshold
    THEN [st |-> "ok", a |-> One - t, b |-> t]
    ELSE Quotients(Sin[Mul[One - t, theta]], Sin[Mul[t, theta]], Sin[theta])

\* x, y, z = a * (x1, y1, z1) + b * (x2, y2, z2)
Interpolated(p1, p2, a, b) ==
    << Mul[a, p1[1]] + Mul[b, p2[1]], Mul[a, p1[2]] + Mul[b, p2[2]],
       Mul[a, p1[3]] + Mul[b, p2[3]] >>

\* "Convert back to lat/lon"
BackToLatLon(v) ==
    IF ~InDomain(v[3])
    THEN [st |-> "ValueError", lat |-> 0, lon |-> 0]
    ELSE [st |-> "ok", lat |-> Degrees[Asin[v[3]]], lon |-> Degrees[Atan2[v[2], v[1]]]]

SlerpBy(p1, p2, w) ==
    IF w.st = "unstable"
    THEN [st |-> "unstable", lat |-> 0, lon |-> 0]
    ELSE BackToLatLon(Interpolated(p1, p2, w.a, w.b))

SlerpOf(p1, p2, t) == SlerpBy(p1, p2, Weights(t, Theta(p1, p2)))

_slerp(lat1, lon1, lat2, lon2, t) ==
    SlerpOf(Cartesian(Radians[lat1], Radians[lon1]),
            Cartesian(Radians[lat2], Radians[lon2]), t)

(***************************************************************************)
(* State.                                                                  *)
(*   routes   TravelRoute.routes: the route_data dicts, in order           *)
(*   lines    the Line visuals the TravelRoute manager has created, in     *)
(*            order of creation; a route_data names its line by position   *)
(*   friends  WorldWindWithFriends.friends: the Friend objects, in order   *)
(*   markers  the Markers visuals add_friend has created, in order         *)
(*   polygon  the Line visuals of WorldWind._create_polygon                *)
(*   travel_photos  WorldWindWithPhotos.travel_photos: the TravelPhoto     *)
(*            objects, in order, each with its marker                      *)
(*   ret      the last call: its arguments, how it ended, what it returned *)
(*   pending  the call a single-call specification is about to make        *)
(*   server   the database of the backend server (app.py): the rows of the *)
(*            tables user, travel and friend, each in order of its ids     *)
(*   auth     a WorldWindAuth client: token and user, each <<>> for None   *)
(*            or <<value>>, and the token saved in ~/.worldwind/token.json,*)
(*            <<>> when there is no file                                   *)
(*   vr       a WorldWindVR canvas and the OpenVR runtime it drives        *)
(***************************************************************************)
VARIABLES routes, lines, friends, markers, polygon, travel_photos, server,
          auth, vr, ret, pending

vars == <<routes, lines, friends, markers, polygon, travel_photos, server,
          auth, vr, ret, pending>>

\* The state of the other objects, which the methods of a globe and of its
\* TravelRoute manager leave alone.
others == <<travel_photos, server, auth, vr>>

\* No WorldWindAuth client, no token file.
NoClient == [token |-> <<>>, user |-> <<>>, file |-> <<>>]

\* No WorldWindVR canvas: vr_system None (0), OpenVR not initialised.
NoCanvas ==
    [VR_AVAILABLE |-> FALSE, vr_enabled |-> FALSE, vr_system |-> 0,
     inits |-> 0, running |-> FALSE, polls |-> 0, closed |-> FALSE,
     timer |-> FALSE, keys |-> 0, ticks |-> 0]

\* The other objects, constructed.
Elsewhere ==
    /\ travel_photos = <<>>
    /\ server = [users |-> <<>>, travels |-> <<>>, friends |-> <<>>]
    /\ auth = NoClient
    /\ vr = NoCanvas

\* Python's None where an object (a line, a friend) is expected; objects are
\* named by their position, from 1.
None == 0

\* The record of a call; every operation fills the fields it has.
NoCall ==
    [op |-> "init", points |-> <<>>, n |-> 0, color |-> "", group |-> "",
     height |-> 0, outcome |-> "return", error |-> "", value |-> None,
     ts |-> <<>>, pts |-> <<>>, xyz |-> <<>>, exp |-> 0, radius |-> 0, unit |-> "",
     t |-> 0, latlon |-> <<>>, distance |-> 0, friend |-> <<>>, show |-> TRUE,
     name |-> "", args |-> <<>>, results |-> <<>>]

Idle ==
    [op |-> "none", points |-> <<>>, n |-> 0, color |-> "", group |-> "", height |-> 0,
     xyz |-> <<>>, exp |-> 0, radius |-> 0, unit |-> "", t |-> 0, calls |-> 0,
     args |-> <<>>]

(***************************************************************************)
(* Bounds of the model.                                                    *)
(***************************************************************************)
MaxWaypoints == 2       \* longest locations list given to create_route
MaxLines == 1           \* Line visuals a TravelRoute manager creates
MaxSamples == 3         \* largest num_points of the manager specification
MaxNumPoints == 6       \* largest num_points of the single-call specification
MaxFootprint == 4       \* longest polygon footprint
MaxFriends == 3         \* friends added to a globe
MaxCalls == 2           \* times a caller repeats one call
MaxRecords == 2         \* records of a JSON file
Tolerance == 100        \* "floating-point tolerance", in units of 1e-8
RoundTripTolerance == 50   \* "within 1e-9 degrees" at the resolution of the model, DegOne units

RECURSIVE SeqsUpTo(_, _)
SeqsUpTo(S, k) ==
    IF k = 0 THEN {<<>>}
    ELSE LET shorter == SeqsUpTo(S, k - 1)
         IN  shorter \cup {Append(q, x) : q \in {r \in shorter : Len(r) = k - 1}, x \in S}

\* The places the TravelRoute manager specification draws its points from.
Places == {Saskatchewan, NewYork}

(***************************************************************************)
(* TravelRoute.create_route                                                *)
(***************************************************************************)
\* A faulty variant of RouteVertices: the vertices in reverse order.
RouteVerticesReversed(locations) ==
    [i \in 1..Len(locations) |->
        latlon_to_xyz(locations[Len(locations) + 1 - i][1],
                      locations[Len(locations) + 1 - i][2], earth_radius + RouteOffset)]

\* "Convert lat/lon to 3D coordinates": vertices = [latlon_to_xyz(lat, lon,
\* earth_radius + 0.02) for lat, lon in locations]
RouteVertices(locations) ==
    [i \in 1..Len(locations) |->
        latlon_to_xyz(locations[i][1], locations[i][2], earth_radius + RouteOffset)]

\* RouteVertices, evaluated once for the lists the manager specification
\* uses: the set of <<locations, vertices>>.
RouteVerticesTable ==
    {<<locations, RouteVertices(locations)>> : locations \in SeqsUpTo(Places, MaxWaypoints)}

VerticesOf(locations) ==
    IF locations \in SeqsUpTo(Places, MaxWaypoints)
    THEN (CHOOSE e \in RouteVerticesTable : e[1] = locations)[2]
    ELSE RouteVertices(locations)

\* A faulty variant of create_route: the test of len(locations) is missing.
create_route_unchecked(locations, color, width, name) ==
    /\ lines' = Append(lines, [pos |-> VerticesOf(locations), color |-> color,
                               width |-> width, parent |-> "scene"])
    /\ routes' = Append(routes, [name |-> name, locations |-> locations,
                                 line |-> Len(lines) + 1, color |-> color])
    /\ ret' = [NoCall EXCEPT !.op = "create_route", !.points = locations,
                             !.value = Len(lines) + 1]

create_route(locations, color, width, name) ==
    IF Len(locations) < 2
    THEN /\ ret' = [NoCall EXCEPT !.op = "create_route", !.points = locations]
         /\ UNCHANGED <<routes, lines>>
    ELSE /\ lines' = Append(lines, [pos |-> VerticesOf(locations), color |-> color,
                                    width |-> width, parent |-> "scene"])
         /\ routes' = Append(routes, [name |-> name, locations |-> locations,
                                      line |-> Len(lines) + 1, color |-> color])
         /\ ret' = [NoCall EXCEPT !.op = "create_route", !.points = locations,
                                  !.value = Len(lines) + 1]

(***************************************************************************)
(* TravelRoute.create_great_circle_route                                   *)
(***************************************************************************)
\* What an unstable _slerp does is decided by rounding noise: `junk` is the
\* choice, either math.asin raising ValueError or some (lat, lon).
NoJunk == [raise |-> TRUE, at |-> <<0, 0>>]
Junk == {NoJunk, [raise |-> FALSE, at |-> <<0, 0>>], [raise |-> FALSE, at |-> NewYork]}

\* The loop "for i in range(num_points)".  Its state: the exception that
\* ended it ("" for none), the values t took, the (lat, lon) _slerp
\* returned, and the vertices list.
NoVertices == [error |-> "", ts |-> <<>>, pts |-> <<>>, pos |-> <<>>]

\* x, y, z = latlon_to_xyz(lat, lon, earth_radius + 0.02); vertices.append
Appended(acc, t, lat, lon) ==
    [acc EXCEPT !.ts = Append(@, t), !.pts = Append(@, <<lat, lon>>),
                !.pos = Append(@, latlon_to_xyz(lat, lon, earth_radius + RouteOffset))]

\* lat, lon = self._slerp(start_lat, start_lon, end_lat, end_lon, t)
Slerped(acc, t, p, junk) ==
    IF p.st = "ValueError" \/ (p.st = "unstable" /\ junk.raise)
    THEN [acc EXCEPT !.error = "ValueError"]
    ELSE IF p.st = "unstable"
    THEN Appended(acc, t, junk.at[1], junk.at[2])
    ELSE Appended(acc, t, p.lat, p.lon)

\* One iteration: t = i / (num_points - 1), then the rest of the body.
LoopBody(acc, start, end, num_points, i, junk) ==
    IF acc.error # "" THEN acc
    ELSE IF num_points - 1 = 0 THEN [acc EXCEPT !.error = "ZeroDivisionError"]
    ELSE Slerped(acc, IntDiv[i, num_points - 1],
                 _slerp(start[1], start[2], end[1], end[2], IntDiv[i, num_points - 1]),
                 junk)

\* The loop after the iterations i = 0 .. count - 1.
RECURSIVE Loop(_, _, _, _, _)
Loop(start, end, num_points, count, junk) ==
    IF count <= 0 THEN NoVertices
    ELSE LoopBody(Loop(start, end, num_points, count - 1, junk),
                  start, end, num_points, count - 1, junk)

\* Can sin(theta) of this pair be too small for the weights?
MayBeUnstable(theta) == theta >= SlerpThreshold /\ 20 * Abs(Sin[theta]) <= One

\* The choices of junk that can make a difference to a call.
JunkFor(start, end) ==
    IF MayBeUnstable(Theta(Cartesian(Radians[start[1]], Radians[start[2]]),
                           Cartesian(Radians[end[1]], Radians[end[2]])))
    THEN Junk
    ELSE {NoJunk}

\* The ways the loop of a call can end: one for each choice that matters.
Loops(start, end, num_points) ==
    {Loop(start, end, num_points, num_points, junk) : junk \in JunkFor(start, end)}

\* Loops, evaluated once for the calls the manager specification makes: the
\* set of <<<<start, end, num_points>>, loops>>.
LoopsTable ==
    {<<c, Loops(c[1], c[2], c[3])>> : c \in Places \X Places \X ((-1)..MaxSamples)}

LoopsOf(start, end, num_points) ==
    IF <<start, end, num_points>> \in Places \X Places \X ((-1)..MaxSamples)
    THEN (CHOOSE e \in LoopsTable : e[1] = <<start, end, num_points>>)[2]
    ELSE Loops(start, end, num_points)

\* After the loop: the Line visual is created and returned; it is not
\* appended to self.routes.
GreatCircleLine(call, loop, color, width) ==
    /\ UNCHANGED routes
    /\ IF loop.error # ""
       THEN /\ ret' = [call EXCEPT !.outcome = "raise", !.error = loop.error]
            /\ UNCHANGED lines
       ELSE /\ lines' = Append(lines, [pos |-> loop.pos, color |-> color,
                                       width |-> width, parent |-> "scene"])
            /\ ret' = [call EXCEPT !.value = Len(lines) + 1, !.ts = loop.ts,
                                   !.pts = loop.pts]

create_great_circle_route(start, end, color, width, num_points) ==
    \E loop \in LoopsOf(start, end, num_points) :
        GreatCircleLine([NoCall EXCEPT !.op = "create_great_circle_route",
                                       !.points = <<start, end>>, !.n = num_points],
                        loop, color, width)

(***************************************************************************)
(* TravelRoute.clear_all_routes                                            *)
(***************************************************************************)
clear_all_routes ==
    /\ lines' = [k \in 1..Len(lines) |->
                    IF \E r \in 1..Len(routes) : routes[r].line = k
                    THEN [lines[k] EXCEPT !.parent = "None"]
                    ELSE lines[k]]
    /\ routes' = <<>>
    /\ ret' = [NoCall EXCEPT !.op = "clear_all_routes"]

(***************************************************************************)
(* WorldWindWithFriends: the colour tables, _get_color and add_friend.     *)
(***************************************************************************)
\* An argument the caller leaves out (the signature's default applies), and
\* an argument the caller passes as None.
NotGiven == "<not given>"
PyNone == "<None>"

Default(arg, value) == IF arg = NotGiven THEN value ELSE arg

\* str.lower() on the names the model uses.
Lower(s) ==
    CASE s = "BLUE" -> "blue"
      [] s = "Pink" -> "pink"
      [] s = "Family" -> "family"
      [] s = "WORK" -> "work"
      [] OTHER -> s

\* self.group_colors
group_colors ==
    [family |-> "red", friends |-> "yellow", work |-> "blue", college |-> "green",
     high_school |-> "orange"]

\* self.color_map: RGB, each component in units of 1e-8
color_map ==
    [red |-> <<One, 0, 0>>, yellow |-> <<One, One, 0>>, blue |-> <<0, 0, One>>,
     green |-> <<0, One, 0>>, cyan |-> <<0, One, One>>, magenta |-> <<One, 0, One>>,
     orange |-> <<One, One \div 2, 0>>, purple |-> <<One \div 2, 0, One>>,
     white |-> <<One, One, One>>, pink |-> <<One, One \div 2, 8 * (One \div 10)>>]

\* The outcome of a method that returns a value or raises.
Returned(value) == [error |-> "", value |-> value]
Raised(error) == [error |-> error, value |-> <<>>]

\* A faulty variant of _get_color: the group is consulted before the name.
_get_color_group_first(color_name, group) ==
    IF color_name = PyNone \/ group = PyNone THEN Raised("AttributeError")
    ELSE IF Lower(group) \in DOMAIN group_colors
    THEN Returned(color_map[group_colors[Lower(group)]])
    ELSE IF Lower(color_name) \in DOMAIN color_map
    THEN Returned(color_map[Lower(color_name)])
    ELSE Returned(<<One, One, 0>>)

\* None has no method lower(): color_name.lower() raises AttributeError.
_get_color(color_name, group) ==
    IF color_name = PyNone THEN Raised("AttributeError")
    ELSE IF Lower(color_name) \in DOMAIN color_map
    THEN Returned(color_map[Lower(color_name)])
    ELSE IF group = PyNone THEN Raised("AttributeError")
    ELSE IF Lower(group) \in DOMAIN group_colors
    THEN Returned(IF group_colors[Lower(group)] \in DOMAIN color_map
                  THEN color_map[group_colors[Lower(group)]]
                  ELSE <<One, One, 0>>)
    ELSE Returned(<<One, One, 0>>)

\* visuals.Markers(parent=self.view.scene, pos=marker_pos, size=18, ...) at
\* latlon_to_xyz(latitude, longitude, self.earth_radius + 0.05)
FriendMarker(latitude, longitude, face_color) ==
    [pos |-> <<latlon_to_xyz(latitude, longitude, earth_radius + MarkerOffset)>>,
     size |-> 18, face_color |-> face_color, edge_color |-> "white",
     edge_width |-> 2, symbol |-> "disc", parent |-> "scene", visible |-> TRUE]

\* The statements of add_friend after marker_color = self._get_color(...).
FriendAdded(call, friend, marker_color, latitude, longitude) ==
    IF marker_color.error # ""
    THEN /\ ret' = [call EXCEPT !.outcome = "raise", !.error = marker_color.error]
         /\ UNCHANGED <<friends, markers>>
    ELSE /\ markers' = Append(markers, FriendMarker(latitude, longitude, marker_color.value))
         /\ friends' = Append(friends, [friend EXCEPT !.marker = Len(markers) + 1])
         /\ ret' = [call EXCEPT !.value = Len(friends) + 1]

\* A faulty variant of the constructor: the group is stored in lower case.
FriendGroupLowered(name, city, latitude, longitude, photo_path, color, group) ==
    [name |-> name, city |-> city, latitude |-> latitude, longitude |-> longitude,
     photo_path |-> Default(photo_path, ""), color |-> Default(color, "yellow"),
     group |-> Lower(Default(group, "friends")), marker |-> None]

\* Friend(name, city, latitude, longitude, photo_path, color, group), with
\* the defaults of the signature for the arguments not given.
Friend(name, city, latitude, longitude, photo_path, color, group) ==
    [name |-> name, city |-> city, latitude |-> latitude, longitude |-> longitude,
     photo_path |-> Default(photo_path, ""), color |-> Default(color, "yellow"),
     group |-> Default(group, "friends"), marker |-> None]

add_friend(name, city, latitude, longitude, photo_path, color, group) ==
    FriendAdded([NoCall EXCEPT !.op = "add_friend", !.points = <<<<latitude, longitude>>>>,
                               !.color = color, !.group = group, !.name = name],
                Friend(name, city, latitude, longitude, photo_path, color, group),
                _get_color(Default(color, "yellow"), Default(group, "friends")),
                latitude, longitude)

\* friend in self.friends.  Friend defines no __eq__, so two Friend objects
\* are equal when they are the same object; a Friend that add_friend made
\* is known by its marker, one the caller constructed has marker None.
InRegistry(friend) == \E i \in 1..Len(friends) : friends[i] = friend

\* A faulty variant of get_friends_by_group: the groups compared as written.
get_friends_by_group_exact(group) == SelectSeq(friends, LAMBDA f : f.group = group)

\* [f for f in self.friends if f.group.lower() == group.lower()]
get_friends_by_group(group) ==
    SelectSeq(friends, LAMBDA f : Lower(f.group) = Lower(group))

\* A faulty variant of list.remove: the last element goes.
ListRemoveLast(list, x) == SubSeq(list, 1, Len(list) - 1)

\* list.remove(x) for an x in the list: the first element equal to x goes.
ListRemove(list, x) ==
    LET first == CHOOSE i \in 1..Len(list) :
                     list[i] = x /\ \A j \in 1..(i - 1) : list[j] # x
    IN  SubSeq(list, 1, first - 1) \o SubSeq(list, first + 1, Len(list))

\* A faulty variant: the marker stays in the scene.
StillAttached(marker) == marker

\* marker.parent = None
Detached(marker) == [marker EXCEPT !.parent = "None"]

\* if friend.marker: friend.marker.parent = None, for the friends of a list
MarkersDetached(list) ==
    [m \in 1..Len(markers) |->
        IF \E i \in 1..Len(list) : list[i].marker # None /\ list[i].marker = m
        THEN Detached(markers[m])
        ELSE markers[m]]

remove_friend(friend) ==
    /\ ret' = [NoCall EXCEPT !.op = "remove_friend", !.friend = friend]
    /\ IF InRegistry(friend)
       THEN /\ markers' = MarkersDetached(<<friend>>)
            /\ friends' = ListRemove(friends, friend)
       ELSE UNCHANGED <<friends, markers>>

\* A faulty variant of show_group: the groups compared as written.
show_group_exact(group, show) ==
    /\ markers' = [m \in 1..Len(markers) |->
                      IF \E i \in 1..Len(friends) :
                            /\ friends[i].group = group
                            /\ friends[i].marker # None /\ friends[i].marker = m
                      THEN [markers[m] EXCEPT !.visible = show]
                      ELSE markers[m]]
    /\ ret' = [NoCall EXCEPT !.op = "show_group", !.group = group, !.show = show]
    /\ UNCHANGED friends

\* for friend in self.friends: if friend.group.lower() == group.lower() and
\* friend.marker: friend.marker.visible = show
show_group(group, show) ==
    /\ markers' = [m \in 1..Len(markers) |->
                      IF \E i \in 1..Len(friends) :
                            /\ Lower(friends[i].group) = Lower(group)
                            /\ friends[i].marker # None /\ friends[i].marker = m
                      THEN [markers[m] EXCEPT !.visible = show]
                      ELSE markers[m]]
    /\ ret' = [NoCall EXCEPT !.op = "show_group", !.group = group, !.show = show]
    /\ UNCHANGED friends

clear_all_friends ==
    /\ markers' = MarkersDetached(friends)
    /\ friends' = <<>>
    /\ ret' = [NoCall EXCEPT !.op = "clear_all_friends"]

(***************************************************************************)
(* WorldWind._create_polygon (and the same method of WorldWindVR).  The    *)
(* method takes no argument: polygon_coords and extrusion_height are       *)
(* literals of its body.  The model makes them the parameters of the       *)
(* operator, so that its statements can be applied to other footprints.    *)
(***************************************************************************)
polygon_coords ==
    << <<Deg(45, 0), Deg(-100, 0)>>, <<Deg(45, 0), Deg(-95, 0)>>,
       <<Deg(40, 0), Deg(-95, 0)>>, <<Deg(40, 0), Deg(-100, 0)>> >>

extrusion_height == 20000000

\* The loop "for lat, lon in polygon_coords" after `count` iterations: the
\* list appended to, for one of the two radii.
RECURSIVE RingVertices(_, _, _)
RingVertices(coords, radius, count) ==
    IF count = 0 THEN <<>>
    ELSE Append(RingVertices(coords, radius, count - 1),
                latlon_to_xyz(coords[count][1], coords[count][2], radius))

\* A faulty variant of Wireframe: the rings are left open.
WireframeOpen(vertices_surface, vertices_extruded) ==
    [edges |-> [i \in 1..Len(vertices_surface) |->
                   [pos |-> <<vertices_surface[i], vertices_extruded[i]>>,
                    color |-> "cyan", width |-> 3, parent |-> "scene"]],
     polygon_top |-> [pos |-> vertices_extruded, color |-> "blue", width |-> 4,
                      parent |-> "scene"],
     polygon_bottom |-> [pos |-> vertices_surface, color |-> "darkblue", width |-> 3,
                         parent |-> "scene"]]

\* "Draw vertical edges", "Draw top polygon", "Draw bottom polygon"
Wireframe(vertices_surface, vertices_extruded) ==
    [edges |-> [i \in 1..Len(vertices_surface) |->
                   [pos |-> <<vertices_surface[i], vertices_extruded[i]>>,
                    color |-> "cyan", width |-> 3, parent |-> "scene"]],
     polygon_top |-> [pos |-> vertices_extruded \o SubSeq(vertices_extruded, 1, 1),
                      color |-> "blue", width |-> 4, parent |-> "scene"],
     polygon_bottom |-> [pos |-> vertices_surface \o SubSeq(vertices_surface, 1, 1),
                         color |-> "darkblue", width |-> 3, parent |-> "scene"]]

_create_polygon(coords, height) ==
    Wireframe(RingVertices(coords, earth_radius, Len(coords)),
              RingVertices(coords, earth_radius + height, Len(coords)))

\* The polygon WorldWind.__init__ creates.
ConstructedPolygon == _create_polygon(polygon_coords, extrusion_height)

(***************************************************************************)
(* TravelRoute.measure_distance.  A distance is an integer number of       *)
(* 1/KmOne km; the result is [st |-> "ok", distance] or [st |->            *)
(* "ValueError"] when math.asin is given a number above 1.                 *)
(***************************************************************************)
KmOne == 10000
\* r = 6371  # km
EarthRadiusKm == 6371
\* distance *= 0.621371, distance *= 0.539957
MileFactor == 62137100
NauticalFactor == 53995700

\* x / 2
Half[x \in Int] == Sgn(x) * ((Abs(x) + 1) \div 2)

\* A faulty variant of HaversineOf: the longitude term is missing.
HaversineOfLatitude(sin_dlat, cos_lat1, cos_lat2, sin_dlon) == Mul[sin_dlat, sin_dlat]

\* a = sin(dlat/2)**2 + cos(lat1) * cos(lat2) * sin(dlon/2)**2
HaversineOf(sin_dlat, cos_lat1, cos_lat2, sin_dlon) ==
    Mul[sin_dlat, sin_dlat] + Mul[Mul[cos_lat1, cos_lat2], Mul[sin_dlon, sin_dlon]]

\* A faulty variant of Haversine: cos(lat1) twice.
HaversineOneSided(lat1, lon1, lat2, lon2) ==
    HaversineOf(Sin[Half[lat2 - lat1]], Cos[lat1], Cos[lat1], Sin[Half[lon2 - lon1]])

\* "Haversine formula", from the four angles in radians
Haversine(lat1, lon1, lat2, lon2) ==
    HaversineOf(Sin[Half[lat2 - lat1]], Cos[lat1], Cos[lat2], Sin[Half[lon2 - lon1]])

\* c = 2 * math.asin(root), root = math.sqrt(a)
CentralAngle(root) ==
    IF InDomain(root) THEN [st |-> "ok", c |-> 2 * Asin[root]] ELSE [st |-> "ValueError", c |-> 0]

\* A faulty variant of InUnit: the two factors exchanged.
InUnitExchanged(distance, unit) ==
    IF unit = "mi" THEN Mul[distance, NauticalFactor]
    ELSE IF unit = "nm" THEN Mul[distance, MileFactor]
    ELSE distance

\* "Convert to requested unit"
InUnit(distance, unit) ==
    IF unit = "mi" THEN Mul[distance, MileFactor]
    ELSE IF unit = "nm" THEN Mul[distance, NauticalFactor]
    ELSE distance

\* distance = r * c, in the unit
DistanceBy(angle, unit) ==
    IF angle.st # "ok"
    THEN [st |-> angle.st, distance |-> 0]
    ELSE [st |-> "ok", distance |-> InUnit(Mul[angle.c, EarthRadiusKm * KmOne], unit)]

measure_distance(point1, point2, unit) ==
    DistanceBy(CentralAngle(Sqrt[Haversine(Radians[point1[1]], Radians[point1[2]],
                                           Radians[point2[1]], Radians[point2[2]])]),
               Default(unit, "km"))

(***************************************************************************)
(* The TravelRoute manager of a globe: any sequence of calls.              *)
(***************************************************************************)
CreateRoute ==
    /\ \E locations \in SeqsUpTo(Places, MaxWaypoints) :
           create_route(locations, "cyan", 3, "Route")
    /\ Len(lines') <= MaxLines
    /\ UNCHANGED <<friends, markers, polygon, pending, others>>

CreateGreatCircleRoute ==
    /\ \E start \in Places, end \in Places, num_points \in (-1)..MaxSamples :
           create_great_circle_route(start, end, "cyan", 3, num_points)
    /\ Len(lines') <= MaxLines
    /\ UNCHANGED <<friends, markers, polygon, pending, others>>

ClearAllRoutes ==
    /\ clear_all_routes
    /\ UNCHANGED <<friends, markers, polygon, pending, others>>

Init ==
    /\ routes = <<>>
    /\ lines = <<>>
    /\ friends = <<>>
    /\ markers = <<>>
    /\ polygon = ConstructedPolygon
    /\ Elsewhere
    /\ ret = NoCall
    /\ pending = Idle

Next == CreateRoute \/ CreateGreatCircleRoute \/ ClearAllRoutes

Spec == Init /\ [][Next]_vars
(***************************************************************************)
(* The friends of a globe: any sequence of add_friend, remove_friend,      *)
(* get_friends_by_group and clear_all_friends.                             *)
(***************************************************************************)
\* The groups friends are added with, the groups asked for.
FriendGroups == {"family", "Family", "work"}

AskedGroups == {"family", "Family", "WORK", "college"}

\* The Friend objects a caller can hold: those add_friend has returned, in
\* the registry or removed from it, and one the caller constructed.
Stranger == Friend("X", "Regina", Saskatchewan[1], Saskatchewan[2], NotGiven, NotGiven, "family")

\* A Friend that was removed: its marker is no longer in the registry (the
\* last call, if it removed that Friend, tells its group).
Removed(friend) ==
    /\ \A i \in 1..Len(friends) : friends[i].marker # friend.marker
    /\ (ret.op = "remove_friend" /\ ret.friend.marker = friend.marker) => ret.friend = friend

FriendObjects ==
    {friends[i] : i \in 1..Len(friends)}
        \cup {friend \in {[Stranger EXCEPT !.group = group, !.marker = m] :
                              group \in FriendGroups, m \in 1..Len(markers)} :
                  Removed(friend)}
        \cup {Stranger}

AddFriend ==
    /\ Len(markers) < MaxFriends
    /\ \E group \in FriendGroups, color \in {NotGiven, PyNone} :
           add_friend("X", "Regina", Saskatchewan[1], Saskatchewan[2], NotGiven, color, group)
    /\ UNCHANGED <<routes, lines, polygon, pending, others>>

RemoveFriend ==
    /\ \E friend \in FriendObjects : remove_friend(friend)
    /\ UNCHANGED <<routes, lines, polygon, pending, others>>

GetFriendsByGroup ==
    /\ \E group \in AskedGroups :
           ret' = [NoCall EXCEPT !.op = "get_friends_by_group", !.group = group,
                                 !.value = get_friends_by_group(group)]
    /\ UNCHANGED <<routes, lines, friends, markers, polygon, pending, others>>

ClearAllFriends ==
    /\ clear_all_friends
    /\ UNCHANGED <<routes, lines, polygon, pending, others>>

ShowGroup ==
    /\ \E group \in AskedGroups, show \in BOOLEAN : show_group(group, show)
    /\ UNCHANGED <<routes, lines, polygon, pending, others>>

NextFriends ==
    \/ AddFriend
    \/ RemoveFriend
    \/ GetFriendsByGroup
    \/ ClearAllFriends
    \/ ShowGroup

SpecFriends == Init /\ [][NextFriends]_vars
(***************************************************************************)
(* load_from_json of WorldWindWithFriends and of WorldWindWithPhotos.  A   *)
(* JSON object is a function from its keys; a path is the sequence of its  *)
(* components, absolute when the first is "/".  The file system is fixed:  *)
(* the JSON file is /data/<name>.json, PngFiles are the files read_png     *)
(* reads, OtherPaths exist but are no PNG image.                           *)
(***************************************************************************)
\* A faulty variant of dict.get: the default wins over a supplied color.
GetColorDefault(dict, key, default) ==
    IF key \in DOMAIN dict /\ key # "color" THEN dict[key] ELSE default

\* dict.get(key, default)
Get(dict, key, default) == IF key \in DOMAIN dict THEN dict[key] ELSE default

json_dir == <<"/", "data">>
PngFiles == {<<"/", "data", "paris.png">>, <<"/", "abs.png">>}
OtherPaths == {json_dir, <<"/", "data", "notes.txt">>}

\* os.path.isabs, os.path.join(json_dir, photo_path)
IsAbs(path) == Len(path) >= 1 /\ path[1] = "/"
Resolved(path) == IF IsAbs(path) THEN path ELSE json_dir \o path

\* self.add_friend(name=friend_data.get('name', 'Unknown'), ...) for one record
FriendLoaded(acc, friend_data, marker_color) ==
    IF acc.error # "" THEN acc
    ELSE IF marker_color.error # "" THEN [acc EXCEPT !.error = marker_color.error]
    ELSE [acc EXCEPT
            !.markers = Append(@, FriendMarker(Get(friend_data, "latitude", 0),
                                               Get(friend_data, "longitude", 0),
                                               marker_color.value)),
            !.friends = Append(@, [Friend(Get(friend_data, "name", "Unknown"),
                                          Get(friend_data, "city", "Unknown"),
                                          Get(friend_data, "latitude", 0),
                                          Get(friend_data, "longitude", 0),
                                          Get(friend_data, "photo", ""),
                                          Get(friend_data, "color", "yellow"),
                                          Get(friend_data, "group", "friends"))
                                   EXCEPT !.marker = Len(acc.markers) + 1]),
            !.results = Append(@, Len(acc.friends) + 1)]

\* WorldWindWithFriends.load_from_json after k of the records: the
\* registry, the markers, the exception that ended the loop ("" for none)
\* and, for each record, the position of the Friend made from it.
RECURSIVE FriendsLoaded(_, _)
FriendsLoaded(friends_data, k) ==
    IF k = 0
    THEN [friends |-> friends, markers |-> markers, error |-> "", results |-> <<>>]
    ELSE FriendLoaded(FriendsLoaded(friends_data, k - 1), friends_data[k],
                      _get_color(Get(friends_data[k], "color", "yellow"),
                                 Get(friends_data[k], "group", "friends")))

\* WorldWindWithFriends.load_from_json(json_path): file is "missing",
\* "malformed" or "ok", data is what json.load returns.
load_friends_from_json(file, data) ==
    LET call == [NoCall EXCEPT !.op = "load_friends_from_json", !.args = <<file, data>>]
        loaded == FriendsLoaded(Get(data, "friends", <<>>), Len(Get(data, "friends", <<>>)))
    IN  IF file # "ok"
        THEN ret' = call /\ UNCHANGED <<friends, markers>>
        ELSE /\ friends' = loaded.friends
             /\ markers' = loaded.markers
             /\ ret' = [call EXCEPT !.results = loaded.results, !.error = loaded.error]

\* TravelPhoto(photo_path, latitude, longitude, title, description, date)
\* with its texture and its marker
TravelPhoto(photo_path, latitude, longitude, title, description, date) ==
    [photo_path |-> photo_path, latitude |-> latitude, longitude |-> longitude,
     title |-> title, description |-> description, date |-> date, texture |-> "image",
     marker |-> [pos |-> <<latlon_to_xyz(latitude, longitude, earth_radius + PhotoOffset)>>,
                 size |-> 20, face_color |-> "cyan", edge_color |-> "white",
                 edge_width |-> 3, symbol |-> "square", parent |-> "scene"]]

\* WorldWindWithPhotos.add_travel_photo on a list of photos: the list after
\* the call and the position of the photo returned (None for None).
add_travel_photo(acc, photo_path, latitude, longitude, title, description, date) ==
    IF photo_path \notin PngFiles
    THEN [acc EXCEPT !.results = Append(@, None)]
    ELSE [acc EXCEPT
            !.photos = Append(@, TravelPhoto(photo_path, latitude, longitude, title,
                                             description, date)),
            !.results = Append(@, Len(acc.photos) + 1)]

\* WorldWindWithPhotos.load_from_json after k of the records.
RECURSIVE TravelsLoaded(_, _)
TravelsLoaded(travels, k) ==
    IF k = 0
    THEN [photos |-> travel_photos, results |-> <<>>]
    ELSE add_travel_photo(TravelsLoaded(travels, k - 1),
                          Resolved(Get(travels[k], "photo", <<>>)),
                          Get(travels[k], "latitude", 0), Get(travels[k], "longitude", 0),
                          Get(travels[k], "title", ""), Get(travels[k], "description", ""),
                          Get(travels[k], "date", ""))

load_photos_from_json(file, data) ==
    LET call == [NoCall EXCEPT !.op = "load_photos_from_json", !.args = <<file, data>>]
        loaded == TravelsLoaded(Get(data, "travels", <<>>), Len(Get(data, "travels", <<>>)))
    IN  IF file # "ok"
        THEN ret' = call /\ UNCHANGED travel_photos
        ELSE /\ travel_photos' = loaded.photos
             /\ ret' = [call EXCEPT !.results = loaded.results]

\* The records of the files: complete, with optional fields missing, empty,
\* and one whose color is null.
FriendRecords ==
    { [name |-> "Sarah", city |-> "New York", latitude |-> NewYork[1],
       longitude |-> NewYork[2], photo |-> "photos/sarah.jpg", color |-> "Pink",
       group |-> "college"],
      [name |-> "Ann", city |-> "Regina", latitude |-> Saskatchewan[1],
       longitude |-> Saskatchewan[2]],
      [name |-> "Bob", latitude |-> NewYork[1], longitude |-> NewYork[2], group |-> "family"],
      [name |-> "Eve", color |-> "", photo |-> ""],
      <<>>,
      [name |-> "Null", color |-> PyNone] }

TravelRecords ==
    { [photo |-> <<"paris.png">>, latitude |-> NewYork[1], longitude |-> NewYork[2],
       title |-> "Eiffel Tower", description |-> "Summer vacation", date |-> "2023-06-15"],
      [photo |-> <<"/", "abs.png">>, latitude |-> Saskatchewan[1],
       longitude |-> Saskatchewan[2]],
      [photo |-> <<"paris.png">>, date |-> "2024", title |-> ""],
      [photo |-> <<"missing.png">>, title |-> "Lost"],
      [photo |-> <<"notes.txt">>, title |-> "Notes"],
      [title |-> "No photo"] }

Files == {"missing", "malformed", "ok"}

LoadCalls ==
    {[Idle EXCEPT !.op = "load_friends_from_json", !.args = <<file, data>>] :
        file \in Files,
        data \in {[friends |-> list] : list \in SeqsUpTo(FriendRecords, MaxRecords)}
                 \cup {[travels |-> <<>>]}}
    \cup {[Idle EXCEPT !.op = "load_photos_from_json", !.args = <<file, data>>] :
             file \in Files,
             data \in {[travels |-> list] : list \in SeqsUpTo(TravelRecords, MaxRecords)}
                      \cup {[friends |-> <<>>]}}

LoadFriendsFromJson ==
    /\ pending.op = "load_friends_from_json"
    /\ load_friends_from_json(pending.args[1], pending.args[2])
    /\ pending' = Idle
    /\ UNCHANGED <<routes, lines, polygon, travel_photos, server, auth, vr>>

LoadPhotosFromJson ==
    /\ pending.op = "load_photos_from_json"
    /\ load_photos_from_json(pending.args[1], pending.args[2])
    /\ pending' = Idle
    /\ UNCHANGED <<routes, lines, friends, markers, polygon, server, auth, vr>>

InitLoad ==
    /\ routes = <<>>
    /\ lines = <<>>
    /\ friends = <<>>
    /\ markers = <<>>
    /\ polygon = ConstructedPolygon
    /\ Elsewhere
    /\ ret = NoCall
    /\ pending \in LoadCalls

NextLoad ==
    \/ LoadFriendsFromJson
    \/ LoadPhotosFromJson

SpecLoad == InitLoad /\ [][NextLoad]_vars
(***************************************************************************)
(* The backend server, src/backend-server/app.py.  A request is handled    *)
(* whole: a handler is an operator from the database and the request to    *)
(* the database it leaves and the response it sends.  An e-mail address    *)
(* is the pair of its local part and its domain, <<>> when the request     *)
(* carries none; a string the request does not carry is "".                *)
(***************************************************************************)
MaxUsers == 2

MaxRows == 2

EmptyDatabase == [users |-> <<>>, travels |-> <<>>, friends |-> <<>>]

Response(db, status, body) == [db |-> db, status |-> status, body |-> body]

\* email.split('@')[0]
LocalPart(email) == email[1]

\* The value of an Authorization header.  generate_token signs the id of
\* the user with the secret of the server and an expiry thirty days ahead.
generate_token(user_id) ==
    [given |-> TRUE, signed |-> TRUE, expired |-> FALSE, user_id |-> user_id]

NoAuthorization ==
    [given |-> FALSE, signed |-> FALSE, expired |-> FALSE, user_id |-> 0]

\* The id of a new row: the table's INTEGER PRIMARY KEY is one more than
\* the largest id in the table.
NextId(rows) ==
    IF rows = <<>> THEN 1
    ELSE 1 + CHOOSE m \in {rows[i].id : i \in DOMAIN rows} :
                 \A i \in DOMAIN rows : rows[i].id <= m

UserById(db, id) == SelectSeq(db.users, LAMBDA u : u.id = id)

UsersByEmail(db, email) == SelectSeq(db.users, LAMBDA u : u.email = email)

UsersByUsername(db, username) ==
    SelectSeq(db.users, LAMBDA u : u.username = username)

UsersByOAuth(db, provider, oauth_id) ==
    SelectSeq(db.users,
              LAMBDA u : u.oauth_provider = provider /\ u.oauth_id = oauth_id)

\* The 'user' object of a login response.
UserBody(user) ==
    [id |-> user.id, email |-> user.email, username |-> user.username]

NewUser(db, email, username, password, provider, oauth_id) ==
    [id |-> NextId(db.users), email |-> email, username |-> username,
     password |-> password, oauth_provider |-> provider, oauth_id |-> oauth_id]

\* The columns email and username of the table user are unique.
Unique(db, user) ==
    /\ UsersByEmail(db, user.email) = <<>>
    /\ UsersByUsername(db, user.username) = <<>>

\* token_required: the user of the request, or the 401 it is refused with.
token_required(db, header) ==
    IF ~header.given
    THEN [status |-> 401, message |-> "Token is missing", user_id |-> 0]
    ELSE IF ~header.signed
    THEN [status |-> 401, message |-> "Invalid token", user_id |-> 0]
    ELSE IF header.expired
    THEN [status |-> 401, message |-> "Token has expired", user_id |-> 0]
    ELSE IF UserById(db, header.user_id) = <<>>
    THEN [status |-> 401, message |-> "User not found", user_id |-> 0]
    ELSE [status |-> 200, message |-> "", user_id |-> header.user_id]

Refused(db, current) ==
    Response(db, current.status, [message |-> current.message])

\* POST /api/register
api_register(db, data) ==
    IF data.email = <<>> \/ data.username = "" \/ data.password = ""
    THEN Response(db, 400, [error |-> "Missing required fields"])
    ELSE IF UsersByEmail(db, data.email) # <<>>
    THEN Response(db, 409, [error |-> "Email already registered"])
    ELSE IF UsersByUsername(db, data.username) # <<>>
    THEN Response(db, 409, [error |-> "Username already taken"])
    ELSE LET user == NewUser(db, data.email, data.username, data.password, "", "")
         IN  Response([db EXCEPT !.users = Append(@, user)], 201,
                      [message |-> "User registered successfully",
                       token |-> generate_token(user.id),
                       user |-> UserBody(user)])

\* POST /api/login.  An account made by an OAuth callback has no password
\* hash, and check_password raises on it.
api_login(db, data) ==
    LET found == UsersByEmail(db, data.email)
    IN  IF data.email = <<>> \/ data.password = ""
        THEN Response(db, 400, [error |-> "Missing email or password"])
        ELSE IF found = <<>>
        THEN Response(db, 401, [error |-> "Invalid credentials"])
        ELSE IF found[1].password = ""
        THEN Response(db, 500, [error |-> "AttributeError"])
        ELSE IF found[1].password # data.password
        THEN Response(db, 401, [error |-> "Invalid credentials"])
        ELSE Response(db, 200,
                      [message |-> "Login successful",
                       token |-> generate_token(found[1].id),
                       user |-> UserBody(found[1])])

\* The common part of the three OAuth callbacks: find the account of the
\* identity or create it.  db.session.commit() raises IntegrityError when
\* the new row breaks a unique constraint, which no handler catches, so
\* the request ends as an internal server error.
oauth_callback(db, provider, oauth_id, email, username) ==
    LET found == UsersByOAuth(db, provider, oauth_id)
        user  == NewUser(db, email, username, "", provider, oauth_id)
    IN  IF found # <<>>
        THEN Response(db, 200,
                      [message |-> "login successful",
                       token |-> generate_token(found[1].id),
                       user |-> UserBody(found[1])])
        ELSE IF ~Unique(db, user)
        THEN Response(db, 500, [error |-> "IntegrityError"])
        ELSE Response([db EXCEPT !.users = Append(@, user)], 200,
                      [message |-> "login successful",
                       token |-> generate_token(user.id),
                       user |-> UserBody(user)])

\* GET /auth/google/callback
auth_google_callback(db, user_info) ==
    oauth_callback(db, "google", user_info.sub, user_info.email,
                   LocalPart(user_info.email))

\* GET /auth/discord/callback
auth_discord_callback(db, user_info) ==
    oauth_callback(db, "discord", user_info.id,
                   IF user_info.email = <<>>
                   THEN <<user_info.id, "discord.user">> ELSE user_info.email,
                   user_info.username)

\* GET /auth/microsoft/callback
auth_microsoft_callback(db, user_info) ==
    oauth_callback(db, "microsoft", user_info.oid, user_info.email,
                   LocalPart(user_info.email))

\* GET /api/profile
api_get_profile(db, header) ==
    LET current == token_required(db, header)
    IN  IF current.status # 200 THEN Refused(db, current)
        ELSE Response(db, 200, UserBody(UserById(db, current.user_id)[1]))

\* Travel.to_dict, Friend.to_dict: the row without its owner.
to_dict(row) == [id |-> row.id, title |-> row.title]

RowsAnyone(rows, user_id) == rows

\* current_user.travels, current_user.friends
RowsOf(rows, user_id) == SelectSeq(rows, LAMBDA row : row.user_id = user_id)

Dicts(rows) == [i \in DOMAIN rows |-> to_dict(rows[i])]

RowById(rows, id) == SelectSeq(rows, LAMBDA row : row.id = id)

MayDeleteAny(rows, id, user_id) == RowById(rows, id) # <<>>

\* if not travel or travel.user_id != current_user.id: 404
MayDelete(rows, id, user_id) ==
    /\ RowById(rows, id) # <<>>
    /\ RowById(rows, id)[1].user_id = user_id

\* GET /api/travels, GET /api/friends
get_rows(db, table, header) ==
    LET current == token_required(db, header)
    IN  IF current.status # 200 THEN Refused(db, current)
        ELSE Response(db, 200, Dicts(RowsOf(db[table], current.user_id)))

\* POST /api/travels, POST /api/friends
create_row(db, table, header, data) ==
    LET current == token_required(db, header)
        row == [id |-> NextId(db[table]), user_id |-> current.user_id,
                title |-> data.title]
    IN  IF current.status # 200 THEN Refused(db, current)
        ELSE Response([db EXCEPT ![table] = Append(@, row)], 201, to_dict(row))

\* DELETE /api/travels/<id>, DELETE /api/friends/<id>
delete_row(db, table, header, id) ==
    LET current == token_required(db, header)
    IN  IF current.status # 200 THEN Refused(db, current)
        ELSE IF ~MayDelete(db[table], id, current.user_id)
        THEN Response(db, 404, [error |-> "not found"])
        ELSE Response([db EXCEPT ![table] =
                          SelectSeq(@, LAMBDA row : row.id # id)],
                      200, [message |-> "deleted successfully"])

(***************************************************************************)
(* Requests to the backend server, in any order, by any client.            *)
(***************************************************************************)
Emails == {<<"ann", "x.com">>, <<"bob", "x.com">>, <<"ann", "y.org">>}

Usernames == {"ann", "bob"}

Users == 1 .. MaxUsers

Headers ==
    {NoAuthorization}
        \cup {generate_token(u) : u \in Users \cup {MaxUsers + 1}}
        \cup {[generate_token(1) EXCEPT !.expired = TRUE],
              [generate_token(1) EXCEPT !.signed = FALSE]}

\* The headers the requests for travels and friends come with: none, the
\* tokens of the two users, a token past its expiry.
RecordHeaders ==
    {NoAuthorization, generate_token(1), generate_token(2),
     [generate_token(1) EXCEPT !.expired = TRUE]}

Tables == {"travels", "friends"}

\* The server answers a request: the database is as the handler leaves it.
Serve(op, args, response) ==
    /\ server' = response.db
    /\ ret' = [NoCall EXCEPT !.op = op, !.args = args,
                             !.results = <<response.status, response.body>>]
    /\ UNCHANGED <<routes, lines, friends, markers, polygon, travel_photos,
                   auth, vr, pending>>

Register ==
    /\ Len(server.users) < MaxUsers
    /\ \E email \in Emails \cup {<<>>}, username \in Usernames :
           LET data == [email |-> email, username |-> username,
                        password |-> "secret"]
           IN  Serve("register", <<data>>, api_register(server, data))

Login ==
    \E email \in Emails, password \in {"secret", "guess"} :
        LET data == [email |-> email, password |-> password]
        IN  Serve("login", <<data>>, api_login(server, data))

GoogleCallback ==
    /\ Len(server.users) < MaxUsers
    /\ \E sub \in {"g-1", "g-2"}, email \in Emails :
           LET user_info == [sub |-> sub, email |-> email]
           IN  Serve("auth_google_callback", <<user_info>>,
                     auth_google_callback(server, user_info))

DiscordCallback ==
    /\ Len(server.users) < MaxUsers
    /\ \E username \in Usernames, email \in {<<>>, <<"bob", "x.com">>} :
           LET user_info == [id |-> "d-1", username |-> username,
                             email |-> email]
           IN  Serve("auth_discord_callback", <<user_info>>,
                     auth_discord_callback(server, user_info))

MicrosoftCallback ==
    /\ Len(server.users) < MaxUsers
    /\ \E email \in Emails :
           LET user_info == [oid |-> "m-1", email |-> email]
           IN  Serve("auth_microsoft_callback", <<user_info>>,
                     auth_microsoft_callback(server, user_info))

GetProfile ==
    \E header \in Headers :
        Serve("get_profile", <<header>>, api_get_profile(server, header))

GetRows ==
    \E table \in Tables, header \in RecordHeaders :
        Serve("get", <<table, header>>, get_rows(server, table, header))

CreateRow ==
    \E table \in Tables, header \in RecordHeaders :
        /\ Len(server.travels) + Len(server.friends) < MaxRows
        /\ Serve("create", <<table, header>>,
                 create_row(server, table, header, [title |-> "Lisbon"]))

DeleteRow ==
    \E table \in Tables, header \in RecordHeaders, id \in 1 .. MaxRows :
        Serve("delete", <<table, header, id>>,
              delete_row(server, table, header, id))

\* The accounts of the server: registration, login and the OAuth callbacks
\* on a new database.
InitAccounts ==
    /\ routes = <<>>
    /\ lines = <<>>
    /\ friends = <<>>
    /\ markers = <<>>
    /\ polygon = ConstructedPolygon
    /\ Elsewhere
    /\ ret = NoCall
    /\ pending = Idle

NextAccounts ==
    \/ Register
    \/ Login
    \/ GoogleCallback
    \/ DiscordCallback
    \/ MicrosoftCallback
    \/ GetProfile

SpecAccounts == InitAccounts /\ [][NextAccounts]_vars

\* The database after ann and bob have registered.
TwoAccounts ==
    api_register(
        api_register(EmptyDatabase,
                     [email |-> <<"ann", "x.com">>, username |-> "ann",
                      password |-> "secret"]).db,
        [email |-> <<"bob", "x.com">>, username |-> "bob",
         password |-> "secret"]).db

\* The travels and friends of two registered users.
InitRecords ==
    /\ routes = <<>>
    /\ lines = <<>>
    /\ friends = <<>>
    /\ markers = <<>>
    /\ polygon = ConstructedPolygon
    /\ travel_photos = <<>>
    /\ server = TwoAccounts
    /\ auth = NoClient
    /\ vr = NoCanvas
    /\ ret = NoCall
    /\ pending = Idle

NextRecords ==
    \/ GetRows
    \/ CreateRow
    \/ DeleteRow

SpecRecords == InitRecords /\ [][NextRecords]_vars

(***************************************************************************)
(* The authentication client, src/python-vispy/worldwind_auth.py, talking  *)
(* to the backend server.  A method is an operator from the client and     *)
(* the database of the server to the client and the database it leaves,    *)
(* how it ended (return or raise) and the status the server answered.      *)
(***************************************************************************)
Outcome(client, db, outcome, error, status) ==
    [auth |-> client, db |-> db, outcome |-> outcome, error |-> error,
     status |-> status]

\* if self.token: the token is neither None nor the empty string
Truthy(token) == token # <<>> /\ token[1].given

\* self.token is not None
is_authenticated(client) == client.token # <<>>

_save_token(client) ==
    IF Truthy(client.token) THEN [client EXCEPT !.file = client.token]
    ELSE client

TokenFileKept(client) == client

_clear_token(client) == [client EXCEPT !.file = <<>>]

\* get_profile, with get_headers
get_profile(client, db) ==
    IF ~Truthy(client.token)
    THEN Outcome(client, db, "raise", "Not authenticated. Please login first.", 0)
    ELSE LET response == api_get_profile(db, client.token[1])
         IN  IF response.status = 200
             THEN Outcome([client EXCEPT !.user = <<response.body>>], db,
                          "return", "", 200)
             ELSE Outcome(client, db, "raise", response.body.message,
                          response.status)

register(client, db, email, username, password) ==
    LET response == api_register(db, [email |-> email, username |-> username,
                                      password |-> password])
    IN  IF response.status = 201
        THEN Outcome(_save_token([client EXCEPT
                                     !.token = <<response.body.token>>,
                                     !.user = <<response.body.user>>]),
                     response.db, "return", "", 201)
        ELSE Outcome(client, response.db, "raise", response.body.error,
                     response.status)

login(client, db, email, password) ==
    LET response == api_login(db, [email |-> email, password |-> password])
    IN  IF response.status = 200
        THEN Outcome(_save_token([client EXCEPT
                                     !.token = <<response.body.token>>,
                                     !.user = <<response.body.user>>]),
                     response.db, "return", "", 200)
        ELSE Outcome(client, response.db, "raise", response.body.error,
                     response.status)

set_token(client, db, token) ==
    get_profile(_save_token([client EXCEPT !.token = token]), db)

logout(client, db) ==
    Outcome(_clear_token([client EXCEPT !.token = <<>>, !.user = <<>>]), db,
            "return", "", 0)

\* _load_token, on the client __init__ has just cleared
_load_token(client, db) ==
    IF client.file = <<>> THEN client
    ELSE LET loaded  == [client EXCEPT !.token = client.file]
             profile == get_profile(loaded, db)
         IN  IF ~Truthy(loaded.token) THEN loaded
             ELSE IF profile.outcome = "return" THEN profile.auth
             ELSE [loaded EXCEPT !.token = <<>>, !.user = <<>>]

\* WorldWindAuth(): a new client in a home directory with the given file
WorldWindAuth(file, db) ==
    Outcome(_load_token([token |-> <<>>, user |-> <<>>, file |-> file], db),
            db, "return", "", 0)

\* The tokens a user may paste after an OAuth login.
PastedTokens ==
    {<<generate_token(u)>> : u \in Users}
        \cup {<<[generate_token(1) EXCEPT !.expired = TRUE]>>,
              <<[generate_token(1) EXCEPT !.signed = FALSE]>>}

\* The client has made a call: it and the server are as the method leaves
\* them.
Called(op, args, result) ==
    /\ auth' = result.auth
    /\ server' = result.db
    /\ ret' = [NoCall EXCEPT !.op = op, !.args = args,
                             !.outcome = result.outcome,
                             !.error = result.error,
                             !.results = <<result.status>>]
    /\ UNCHANGED <<routes, lines, friends, markers, polygon, travel_photos,
                   vr, pending>>

NewClient == Called("__init__", <<>>, WorldWindAuth(auth.file, server))

ClientRegister ==
    /\ Len(server.users) < MaxUsers
    /\ \E email \in Emails, username \in Usernames :
           Called("register", <<email, username>>,
                  register(auth, server, email, username, "secret"))

ClientLogin ==
    \E email \in Emails, password \in {"secret", "guess"} :
        Called("login", <<email, password>>,
               login(auth, server, email, password))

SetToken ==
    \E token \in PastedTokens :
        Called("set_token", <<token>>, set_token(auth, server, token))

ClientGetProfile == Called("get_profile", <<>>, get_profile(auth, server))

Logout == Called("logout", <<>>, logout(auth, server))

InitClient ==
    /\ routes = <<>>
    /\ lines = <<>>
    /\ friends = <<>>
    /\ markers = <<>>
    /\ polygon = ConstructedPolygon
    /\ Elsewhere
    /\ ret = NoCall
    /\ pending = Idle

NextClient ==
    \/ NewClient
    \/ ClientRegister
    \/ ClientLogin
    \/ SetToken
    \/ ClientGetProfile
    \/ Logout

SpecClient == InitClient /\ [][NextClient]_vars

(***************************************************************************)
(* The VR canvas, src/python-vispy/worldwind_vr.py.  vr_system is 0 for    *)
(* None and otherwise the handle openvr.init returned, the handles         *)
(* numbered in the order of the calls; running tells whether the OpenVR    *)
(* runtime is initialised and not shut down; polls counts the calls of     *)
(* getDeviceToAbsoluteTrackingPose.                                        *)
(***************************************************************************)
MaxKeys == 4

MaxTicks == 3

\* What openvr.init does: it returns a handle, returns nothing, or raises.
InitOutcomes == {"handle", "none", "raise"}

_init_vr(canvas, outcome) ==
    IF outcome = "handle"
    THEN [canvas EXCEPT !.vr_system = canvas.inits + 1, !.inits = @ + 1,
                        !.running = TRUE]
    ELSE IF outcome = "none"
    THEN [canvas EXCEPT !.vr_system = 0, !.vr_enabled = FALSE]
    ELSE [canvas EXCEPT !.vr_enabled = FALSE]

\* WorldWindVR(enable_vr): _init_vr runs before the canvas is set up, and
\* the set-up then assigns None to vr_system.  The timer that calls
\* _update_vr is started when vr_enabled is still true at the end.
WorldWindVR(enable_vr, available, outcome) ==
    LET chosen == [VR_AVAILABLE |-> available,
                   vr_enabled |-> enable_vr /\ available, vr_system |-> 0,
                   inits |-> 0, running |-> FALSE, polls |-> 0,
                   closed |-> FALSE, timer |-> FALSE, keys |-> 0, ticks |-> 0]
        tried  == IF chosen.vr_enabled THEN _init_vr(chosen, outcome)
                  ELSE chosen
    IN  [tried EXCEPT !.vr_system = 0, !.timer = tried.vr_enabled]

_update_vr(canvas) ==
    IF ~canvas.vr_enabled \/ canvas.vr_system = 0 THEN canvas
    ELSE [canvas EXCEPT !.polls = @ + 1]

_cleanup(canvas) ==
    IF canvas.vr_enabled /\ canvas.vr_system # 0
    THEN [canvas EXCEPT !.running = FALSE]
    ELSE canvas

\* The canvas has handled an event.
Handled(op, outcome, canvas) ==
    /\ vr' = canvas
    /\ ret' = [NoCall EXCEPT !.op = op, !.results = <<outcome>>]
    /\ UNCHANGED <<routes, lines, friends, markers, polygon, travel_photos,
                   server, auth, pending>>

\* on_key_press, 'v' or 'V'
KeyV ==
    /\ ~vr.closed
    /\ vr.keys < MaxKeys
    /\ \E outcome \in InitOutcomes :
           LET pressed == [vr EXCEPT !.keys = @ + 1]
           IN  IF vr.VR_AVAILABLE /\ ~vr.vr_enabled
               THEN Handled("V", outcome, _init_vr(pressed, outcome))
               ELSE Handled("V", "status", pressed)

\* on_key_press, 'Escape'
KeyEscape ==
    /\ ~vr.closed
    /\ Handled("Escape", "", [_cleanup(vr) EXCEPT !.closed = TRUE])

\* The 90 Hz timer fires.
TimerTick ==
    /\ ~vr.closed
    /\ vr.timer
    /\ vr.ticks < MaxTicks
    /\ Handled("_update_vr", "", _update_vr([vr EXCEPT !.ticks = @ + 1]))

InitVR ==
    /\ routes = <<>>
    /\ lines = <<>>
    /\ friends = <<>>
    /\ markers = <<>>
    /\ polygon = ConstructedPolygon
    /\ travel_photos = <<>>
    /\ server = EmptyDatabase
    /\ auth = NoClient
    /\ \E enable_vr \in BOOLEAN, available \in BOOLEAN,
          outcome \in InitOutcomes :
           vr = WorldWindVR(enable_vr, available, outcome)
    /\ ret = NoCall
    /\ pending = Idle

NextVR ==
    \/ KeyV
    \/ KeyEscape
    \/ TimerTick

SpecVR == InitVR /\ [][NextVR]_vars

(***************************************************************************)
(* One call on a constructed globe: Init chooses the call and its          *)
(* arguments, the action of the operation makes it.                        *)
(***************************************************************************)
\* start and end of the great-circle calls: far apart, closer than 0.001
\* rad, identical, antipodal, from a pole, and with a point off the globe.
Legs ==
    { <<Saskatchewan, NewYork>>, <<NewYork, Saskatchewan>>, <<Saskatchewan, NearSask>>,
      <<Saskatchewan, Saskatchewan>>, <<Saskatchewan, AntiSask>>, <<FarSouth, FarNorth>>,
      <<NorthPole, NewYork>>, <<NewYork, OffGlobe>> }

GreatCircleCalls ==
    {[Idle EXCEPT !.op = "create_great_circle_route", !.points = leg, !.n = num_points] :
        leg \in Legs, num_points \in (-1)..MaxNumPoints}

Colors ==
    DOMAIN color_map \cup {"BLUE", "Pink", "teal", NotGiven, PyNone}

Groups ==
    DOMAIN group_colors \cup {"Family", "WORK", "unknown_group", NotGiven}

FriendCalls ==
    {[Idle EXCEPT !.op = "add_friend", !.points = <<p>>, !.color = color, !.group = group] :
        p \in {Saskatchewan, OffGlobe}, color \in Colors, group \in Groups}

\* Footprints: the corners of polygon_coords, in any order, none twice.
Footprints ==
    {f \in SeqsUpTo({polygon_coords[i] : i \in 1..Len(polygon_coords)}, MaxFootprint) :
        Len(f) >= 1 /\ \A i, j \in 1..Len(f) : i # j => f[i] # f[j]}

Heights == {extrusion_height, 0, -extrusion_height}

PolygonCalls ==
    {[Idle EXCEPT !.op = "_create_polygon", !.points = f, !.height = h] :
        f \in Footprints, h \in Heights}

ForwardCalls ==
    {[Idle EXCEPT !.op = "latlon_to_xyz", !.points = <<p>>] :
        p \in {Saskatchewan, NewYork, NearSask, AntiSask, NorthPole, FarSouth, FarNorth,
                OffGlobe}}

\* The decimal exponents of the Cartesian arguments: 1, 1e200, 1e-160, 1e-200.
Exponents == {0, 200, -160, -200}

Vectors ==
    { <<0, 0, 0>>, <<One, 0, 0>>, <<-One, 0, 0>>, <<0, One, 0>>, <<0, -One, 0>>,
      <<0, 0, One>>, <<0, 0, -One>>, <<One \div 2, -One, One>> }

InverseCalls ==
    {[Idle EXCEPT !.op = "xyz_to_latlon", !.xyz = v, !.exp = k] :
        v \in Vectors, k \in Exponents}

\* xyz_to_latlon(*latlon_to_xyz(lat, lon, radius)) for radius = 1.0 * 10^k
\* and 1.02 * 10^k.
RoundTripPoints ==
    {Saskatchewan, NewYork, NorthPole, SouthPole, FarSouth, FarNorth, NearPole,
     DateLineEast, DateLineWest}

Radii == {earth_radius, earth_radius + RouteOffset}

RoundTripCalls ==
    {[Idle EXCEPT !.op = "xyz_to_latlon", !.points = <<g>>, !.radius = radius,
                  !.xyz = latlon_to_xyz(g[1], g[2], radius), !.exp = k] :
        g \in RoundTripPoints, radius \in Radii, k \in Exponents}

DistancePoints ==
    {Saskatchewan, NewYork, NearSask, AntiSask, NorthPole, PoleEast, DateLineEast,
     DateLineWest, FarSouth, FarNorth}

Units == {"km", "mi", "nm", "ft", NotGiven}

DistanceCalls ==
    {[Idle EXCEPT !.op = "measure_distance", !.points = <<point1, point2>>, !.unit = unit] :
        point1 \in DistancePoints, point2 \in DistancePoints, unit \in Units}

\* The pairs _slerp is called with: those of the great-circle calls, two
\* more antipodal pairs, from a pole with a longitude, from the date line.
SlerpLegs ==
    Legs \cup { <<AntiSask, Saskatchewan>>, <<NorthPole, SouthPole>>, <<PoleEast, NewYork>>,
                <<DateLineWest, NewYork>>, <<NewYork, DateLineEast>> }

\* t: 0, 0.25, 0.5, 0.8 and 1
Fractions == {0, One \div 4, One \div 2, (8 * One) \div 10, One}

SlerpCalls ==
    {[Idle EXCEPT !.op = "_slerp", !.points = leg, !.t = t] :
        leg \in SlerpLegs, t \in Fractions}

CallLatLonToXYZ ==
    /\ pending.op = "latlon_to_xyz"
    /\ ret' = [NoCall EXCEPT !.op = "latlon_to_xyz", !.points = pending.points,
                             !.xyz = latlon_to_xyz(pending.points[1][1],
                                                   pending.points[1][2], earth_radius)]
    /\ pending' = Idle
    /\ UNCHANGED <<routes, lines, friends, markers, polygon, others>>

\* The return or the exception of a conversion to (lat, lon).
Converted(call, p) ==
    IF p.st = "ok"
    THEN [call EXCEPT !.latlon = <<p.lat, p.lon>>]
    ELSE [call EXCEPT !.outcome = "raise", !.error = p.st]

CallXYZToLatLon ==
    /\ pending.op = "xyz_to_latlon"
    /\ ret' = Converted([NoCall EXCEPT !.op = "xyz_to_latlon", !.points = pending.points,
                                       !.radius = pending.radius, !.xyz = pending.xyz,
                                       !.exp = pending.exp],
                        xyz_to_latlon(pending.xyz[1], pending.xyz[2], pending.xyz[3],
                                      pending.exp))
    /\ pending' = Idle
    /\ UNCHANGED <<routes, lines, friends, markers, polygon, others>>

\* The return or the exception of measure_distance.
Measured(call, d) ==
    IF d.st = "ok"
    THEN [call EXCEPT !.distance = d.distance]
    ELSE [call EXCEPT !.outcome = "raise", !.error = d.st]

CallMeasureDistance ==
    /\ pending.op = "measure_distance"
    /\ ret' = Measured([NoCall EXCEPT !.op = "measure_distance", !.points = pending.points,
                                      !.unit = pending.unit],
                       measure_distance(pending.points[1], pending.points[2], pending.unit))
    /\ pending' = Idle
    /\ UNCHANGED <<routes, lines, friends, markers, polygon, others>>

\* What a call of _slerp can end with: when the weights are unstable, with
\* ValueError from math.asin or with the (lat, lon) of the rounding noise.
SlerpOutcomes(p) ==
    IF p.st = "unstable"
    THEN {IF junk.raise THEN [st |-> "ValueError", lat |-> 0, lon |-> 0]
                        ELSE [st |-> "ok", lat |-> junk.at[1], lon |-> junk.at[2]] :
            junk \in Junk}
    ELSE {p}

CallSlerp ==
    /\ pending.op = "_slerp"
    /\ \E p \in SlerpOutcomes(_slerp(pending.points[1][1], pending.points[1][2],
                                      pending.points[2][1], pending.points[2][2],
                                      pending.t)) :
          ret' = Converted([NoCall EXCEPT !.op = "_slerp", !.points = pending.points,
                                          !.t = pending.t], p)
    /\ pending' = Idle
    /\ UNCHANGED <<routes, lines, friends, markers, polygon, others>>

CallGreatCircle ==
    /\ pending.op = "create_great_circle_route"
    /\ create_great_circle_route(pending.points[1], pending.points[2], "cyan", 3, pending.n)
    /\ pending' = Idle
    /\ UNCHANGED <<friends, markers, polygon, others>>

CallAddFriend ==
    /\ pending.op = "add_friend"
    /\ add_friend("X", "Regina", pending.points[1][1], pending.points[1][2], NotGiven,
                  pending.color, pending.group)
    /\ pending' = Idle
    /\ UNCHANGED <<routes, lines, polygon, others>>

CallCreatePolygon ==
    /\ pending.op = "_create_polygon"
    /\ polygon' = _create_polygon(pending.points, pending.height)
    /\ ret' = [NoCall EXCEPT !.op = "_create_polygon", !.points = pending.points,
                             !.height = pending.height]
    /\ pending' = Idle
    /\ UNCHANGED <<routes, lines, friends, markers, others>>

InitCall ==
    /\ routes = <<>>
    /\ lines = <<>>
    /\ friends = <<>>
    /\ markers = <<>>
    /\ polygon = ConstructedPolygon
    /\ Elsewhere
    /\ ret = NoCall
    /\ pending \in ForwardCalls \cup GreatCircleCalls \cup FriendCalls \cup PolygonCalls
                    \cup InverseCalls \cup RoundTripCalls \cup DistanceCalls

NextCall ==
    \/ CallLatLonToXYZ
    \/ CallGreatCircle
    \/ CallAddFriend
    \/ CallCreatePolygon
    \/ CallXYZToLatLon
    \/ CallMeasureDistance

SpecCall == InitCall /\ [][NextCall]_vars
(***************************************************************************)
(* One call of a TravelRoute manager made again and again with the same    *)
(* arguments: Init chooses the call, pending.calls counts the times made.  *)
(***************************************************************************)
RepeatedCalls ==
    {[Idle EXCEPT !.op = "create_route", !.points = locations] :
        locations \in SeqsUpTo(Places, MaxWaypoints)}
    \cup {[Idle EXCEPT !.op = "create_great_circle_route", !.points = <<start, end>>,
                       !.n = num_points] :
             start \in Places, end \in Places, num_points \in (-1)..MaxSamples}
    \cup DistanceCalls

AgainCreateRoute ==
    /\ pending.op = "create_route"
    /\ pending.calls < MaxCalls
    /\ create_route(pending.points, "cyan", 3, "Route")
    /\ pending' = [pending EXCEPT !.calls = @ + 1]
    /\ UNCHANGED <<friends, markers, polygon, others>>

AgainGreatCircle ==
    /\ pending.op = "create_great_circle_route"
    /\ pending.calls < MaxCalls
    /\ create_great_circle_route(pending.points[1], pending.points[2], "cyan", 3, pending.n)
    /\ pending' = [pending EXCEPT !.calls = @ + 1]
    /\ UNCHANGED <<friends, markers, polygon, others>>

AgainMeasureDistance ==
    /\ pending.op = "measure_distance"
    /\ pending.calls < MaxCalls
    /\ ret' = Measured([NoCall EXCEPT !.op = "measure_distance", !.points = pending.points,
                                      !.unit = pending.unit],
                       measure_distance(pending.points[1], pending.points[2], pending.unit))
    /\ pending' = [pending EXCEPT !.calls = @ + 1]
    /\ UNCHANGED <<routes, lines, friends, markers, polygon, others>>

InitAgain ==
    /\ routes = <<>>
    /\ lines = <<>>
    /\ friends = <<>>
    /\ markers = <<>>
    /\ polygon = ConstructedPolygon
    /\ Elsewhere
    /\ ret = NoCall
    /\ pending \in RepeatedCalls

NextAgain ==
    \/ AgainCreateRoute
    \/ AgainGreatCircle
    \/ AgainMeasureDistance

SpecAgain == InitAgain /\ [][NextAgain]_vars
(***************************************************************************)
(* One call of TravelRoute._slerp: Init chooses the two points and t.      *)
(***************************************************************************)
InitSlerp ==
    /\ routes = <<>>
    /\ lines = <<>>
    /\ friends = <<>>
    /\ markers = <<>>
    /\ polygon = ConstructedPolygon
    /\ Elsewhere
    /\ ret = NoCall
    /\ pending \in SlerpCalls

NextSlerp == CallSlerp

SpecSlerp == InitSlerp /\ [][NextSlerp]_vars
(***************************************************************************)
(* Properties.                                                             *)
(***************************************************************************)
\* Two Cartesian points equal "within floating-point tolerance".
Close(u, v) == \A k \in 1..3 : Abs(u[k] - v[k]) <= Tolerance

\* CoordinateTransform.forward of a GeoPoint.
Forward(p, radius) == latlon_to_xyz(p[1], p[2], radius)

\* The colour of the marker of the friend the last add_friend returned.
MarkerColor == markers[friends[ret.value].marker].face_color

\* The last call was add_friend and its caller gave a colour.
ColorGiven == ret.op = "add_friend" /\ ret.color \notin {NotGiven, PyNone}

\* C1: add_friend with an explicit colour resolves the display colour by
\* priority: a colour that names an entry of the colour table (names are
\* matched after lower-casing) gives that entry's RGB; otherwise a known
\* group gives the RGB of the group's default colour; otherwise the colour
\* is yellow (1, 1, 0).
C1_ColorPriority ==
    ColorGiven =>
        /\ ret.outcome = "return"
        /\ MarkerColor =
              IF Lower(ret.color) \in DOMAIN color_map
              THEN color_map[Lower(ret.color)]
              ELSE IF Lower(Default(ret.group, "friends")) \in DOMAIN group_colors
              THEN color_map[group_colors[Lower(Default(ret.group, "friends"))]]
              ELSE <<One, One, 0>>

\* An unknown colour name with an unknown group has resolved to yellow.
C1_UnknownIsYellow ==
    /\ ColorGiven
    /\ ret.color = "teal"
    /\ ret.group = "unknown_group"
    /\ MarkerColor = <<One, One, 0>>

\* C2: add_friend with no colour supplied (the argument left out, or None)
\* and a known group returns a friend whose marker has the group's default
\* colour: red for family, blue for work, green for college, orange for
\* high_school, yellow for friends.
C2_GroupDefaultWithoutColor ==
    (/\ ret.op = "add_friend"
     /\ ret.color \in {NotGiven, PyNone}
     /\ Lower(ret.group) \in DOMAIN group_colors) =>
        /\ ret.outcome = "return"
        /\ MarkerColor = color_map[group_colors[Lower(ret.group)]]

\* C3: a create_route call with fewer than 2 locations is rejected (it
\* returns None, no Line) and leaves the routes list and the lines of the
\* scene as they were.
C3_ShortRouteRejected ==
    [][(ret'.op = "create_route" /\ Len(ret'.points) < 2) =>
          /\ ret'.outcome = "return"
          /\ ret'.value = None
          /\ routes' = routes
          /\ lines' = lines]_vars

\* A one-point route has been rejected by a manager that holds a route.
C3_RejectedWithRoutes ==
    /\ ret.op = "create_route"
    /\ Len(ret.points) = 1
    /\ ret.value = None
    /\ Len(routes) = 1
    /\ Len(lines) = 1

\* C4: a create_great_circle_route call with num_points < 2 is rejected at
\* entry: it does not divide by num_points - 1 = 0 and it returns no
\* polyline, so no Line is created.
C4_FewPointsRejected ==
    (ret.op = "create_great_circle_route" /\ ret.n < 2) =>
        /\ ret.error # "ZeroDivisionError"
        /\ ret.value = None
        /\ lines = <<>>

\* C5: a create_great_circle_route call with num_points >= 2 returns a
\* polyline of exactly num_points vertices; vertex i is computed from
\* t = i / (num_points - 1), so the first t is 0, the last is 1 and all are
\* in [0, 1], and it is the interpolated point at earth_radius + 0.02.
C5_ExactlyNumPointsVertices ==
    (ret.op = "create_great_circle_route" /\ ret.n >= 2) =>
        /\ ret.outcome = "return"
        /\ Len(lines[ret.value].pos) = ret.n
        /\ Len(ret.ts) = ret.n
        /\ ret.ts[1] = 0
        /\ ret.ts[ret.n] = One
        /\ \A i \in 1..ret.n :
              /\ ret.ts[i] = IntDiv[i - 1, ret.n - 1]
              /\ 0 <= ret.ts[i] /\ ret.ts[i] <= One
              /\ lines[ret.value].pos[i] = Forward(ret.pts[i], earth_radius + RouteOffset)

\* C6: a create_great_circle_route call with valid start and end (and
\* num_points >= 2) returns a polyline whose first vertex is forward(start)
\* and whose last vertex is forward(end) at earth_radius + 0.02, within the
\* tolerance.
C6_EndpointsAreStartAndEnd ==
    (/\ ret.op = "create_great_circle_route"
     /\ ret.n >= 2
     /\ ValidPoint(ret.points[1])
     /\ ValidPoint(ret.points[2])) =>
        /\ ret.outcome = "return"
        /\ Close(lines[ret.value].pos[1], Forward(ret.points[1], earth_radius + RouteOffset))
        /\ Close(lines[ret.value].pos[ret.n], Forward(ret.points[2], earth_radius + RouteOffset))

\* C7: the Line of every recorded route has one vertex for each of the
\* route's n >= 2 locations, in their order: vertex i is forward(location i)
\* at earth_radius + 0.02.
C7_RouteVerticesInOrder ==
    \A r \in 1..Len(routes) :
        /\ Len(routes[r].locations) >= 2
        /\ Len(lines[routes[r].line].pos) = Len(routes[r].locations)
        /\ \A i \in 1..Len(routes[r].locations) :
              lines[routes[r].line].pos[i]
                  = Forward(routes[r].locations[i], earth_radius + RouteOffset)

\* create_route has returned the Line of a route between two places.
C7_TwoPlaceRoute ==
    /\ ret.op = "create_route"
    /\ ret.value # None
    /\ ret.points = <<Saskatchewan, NewYork>>
    /\ Len(lines[ret.value].pos) = 2
    /\ Len(routes) = 1

\* C8: for a footprint of N >= 3 vertices the polygon has a bottom ring and
\* a top ring of N + 1 vertices each, closed by a copy of their first
\* vertex, following the footprint order at earth_radius and at
\* earth_radius + extrusion_height, and exactly N vertical edges, edge i
\* joining vertex i of the bottom ring to vertex i of the top ring.
C8_ExtrudedRings ==
    (ret.op = "_create_polygon" /\ Len(ret.points) >= 3) =>
        /\ Len(polygon.polygon_bottom.pos) = Len(ret.points) + 1
        /\ Len(polygon.polygon_top.pos) = Len(ret.points) + 1
        /\ polygon.polygon_bottom.pos[Len(ret.points) + 1] = polygon.polygon_bottom.pos[1]
        /\ polygon.polygon_top.pos[Len(ret.points) + 1] = polygon.polygon_top.pos[1]
        /\ Len(polygon.edges) = Len(ret.points)
        /\ \A i \in 1..Len(ret.points) :
              /\ polygon.polygon_bottom.pos[i] = Forward(ret.points[i], earth_radius)
              /\ polygon.polygon_top.pos[i] = Forward(ret.points[i], earth_radius + ret.height)
              /\ polygon.edges[i].pos
                     = <<polygon.polygon_bottom.pos[i], polygon.polygon_top.pos[i]>>

\* The four-corner footprint of the source has been extruded by 0.2.
C8_FourCorners ==
    /\ ret.op = "_create_polygon"
    /\ ret.points = polygon_coords
    /\ ret.height = extrusion_height
    /\ Len(polygon.edges) = 4
    /\ Len(polygon.polygon_top.pos) = 5

C10_OffGlobeRejected ==
    (/\ ret.op \in {"latlon_to_xyz", "create_great_circle_route", "add_friend"}
     /\ \E i \in 1..Len(ret.points) : ~ValidPoint(ret.points[i])) =>
        /\ ret.outcome = "raise"
        /\ ret.error = "InvalidCoordinate"
        /\ lines = <<>>
        /\ friends = <<>>
        /\ markers = <<>>

\* C11: xyz_to_latlon never ends with an exception; given the origin
\* (0, 0, 0) it returns (0, 0); given any other point it returns a latitude
\* in [-90, 90] and a longitude in [-180, 180].
C11_InverseIsTotal ==
    (ret.op = "xyz_to_latlon") =>
        /\ ret.outcome = "return"
        /\ ret.xyz = <<0, 0, 0>> => ret.latlon = <<0, 0>>
        /\ ValidPoint(ret.latlon)

\* C12: for every valid GeoPoint g and every radius r > 0,
\* xyz_to_latlon(latlon_to_xyz(g, r)) returns g: the latitude within the
\* tolerance, and the longitude too unless the latitude of g is 90 or -90.
C12_RoundTrip ==
    (/\ ret.op = "xyz_to_latlon"
     /\ Len(ret.points) = 1
     /\ ValidPoint(ret.points[1])
     /\ ret.radius > 0
     /\ ret.xyz = Forward(ret.points[1], ret.radius)) =>
        /\ ret.outcome = "return"
        /\ Abs(ret.latlon[1] - ret.points[1][1]) <= RoundTripTolerance
        /\ Abs(ret.points[1][1]) # 90 * DegOne =>
              Abs(ret.latlon[2] - ret.points[1][2]) <= RoundTripTolerance

\* The last call was measure_distance for two valid points.
DistanceMeasured ==
    /\ ret.op = "measure_distance"
    /\ ValidPoint(ret.points[1])
    /\ ValidPoint(ret.points[2])

\* C13: for valid points a, b and every unit, measure_distance(a, b, unit)
\* returns what measure_distance(b, a, unit) returns, and
\* measure_distance(a, a, unit) returns 0.
C13_DistanceSymmetric ==
    DistanceMeasured =>
        /\ ret.outcome = "return"
        /\ measure_distance(ret.points[2], ret.points[1], ret.unit)
               = [st |-> "ok", distance |-> ret.distance]
        /\ ret.points[1] = ret.points[2] => ret.distance = 0

\* The distance from Saskatchewan to New York in miles has been measured.
C13_SaskatchewanToNewYork ==
    /\ DistanceMeasured
    /\ ret.points = <<Saskatchewan, NewYork>>
    /\ ret.unit = "mi"
    /\ ret.distance > 0

\* Two GeoPoints that denote one point of the sphere: the same tuple, the
\* same pole with any longitudes, or one latitude with longitudes -180 and 180.
SamePlace(p, q) ==
    \/ p = q
    \/ p[1] = q[1] /\ Abs(p[1]) = 90 * DegOne
    \/ p[1] = q[1] /\ Abs(p[2] - q[2]) = 360 * DegOne

\* C14: the distance of two valid points is never negative; it is 0 when
\* the two GeoPoints are the same, and two distinct GeoPoints yield 0 only
\* if they denote the same point (points are told apart at the numerical
\* resolution of the haversine formula).
C14_ZeroOnlyForSamePoint ==
    DistanceMeasured =>
        /\ ret.outcome = "return"
        /\ ret.distance >= 0
        /\ ret.points[1] = ret.points[2] => ret.distance = 0
        /\ ret.distance = 0 => SamePlace(ret.points[1], ret.points[2])

\* Two points 0.03 degrees of longitude apart have a positive distance.
C14_NearbyPointsApart ==
    /\ DistanceMeasured
    /\ ret.points = <<Saskatchewan, NearSask>>
    /\ ret.distance > 0

\* The kilometre result: 6371 times the central angle.
Kilometres(point1, point2) ==
    Mul[2 * Asin[Sqrt[Haversine(Radians[point1[1]], Radians[point1[2]],
                                Radians[point2[1]], Radians[point2[2]])]],
        EarthRadiusKm * KmOne]

\* C17: for unit 'km' measure_distance returns the kilometre result (6371
\* times the central angle), for 'mi' the kilometre result times 0.621371
\* and for 'nm' the kilometre result times 0.539957.
C17_UnitFactors ==
    (ret.op = "measure_distance" /\ ret.unit \in {"km", "mi", "nm"}) =>
        /\ ret.outcome = "return"
        /\ ret.unit = "km" => ret.distance = Kilometres(ret.points[1], ret.points[2])
        /\ ret.unit = "mi" =>
              ret.distance = Mul[Kilometres(ret.points[1], ret.points[2]), MileFactor]
        /\ ret.unit = "nm" =>
              ret.distance = Mul[Kilometres(ret.points[1], ret.points[2]), NauticalFactor]

\* Saskatchewan to New York in nautical miles: 1527.46.
C17_NauticalMiles ==
    /\ ret.op = "measure_distance"
    /\ ret.points = <<Saskatchewan, NewYork>>
    /\ ret.unit = "nm"
    /\ ret.distance = 15274611

\* The angle _slerp computes between two (lat, lon) points.
Separation(p, q) ==
    Theta(Cartesian(Radians[p[1]], Radians[p[2]]), Cartesian(Radians[q[1]], Radians[q[2]]))

\* The weights of a call of _slerp.
WeightsOf(call) == Weights(call.t, Separation(call.points[1], call.points[2]))

\* A call of _slerp at an endpoint, with two distinct valid points more
\* than 0.001 rad apart.
AtEndpoint(call) ==
    /\ call.op = "_slerp"
    /\ call.t \in {0, One}
    /\ ValidPoint(call.points[1]) /\ ValidPoint(call.points[2])
    /\ call.points[1] # call.points[2]
    /\ Separation(call.points[1], call.points[2]) > SlerpThreshold

\* C15: for valid GeoPoints a # b more than 0.001 rad apart, _slerp at
\* t = 0 returns a and at t = 1 returns b (the same place on the globe,
\* within the tolerance), the weights being (1, 0) and (0, 1); antipodal
\* pairs included.
C15_SlerpEndpoints ==
    AtEndpoint(ret) =>
        /\ ret.outcome = "return"
        /\ WeightsOf(ret) = [st |-> "ok", a |-> One - ret.t, b |-> ret.t]
        /\ Close(Forward(ret.latlon, earth_radius),
                 Forward(IF ret.t = 0 THEN ret.points[1] ELSE ret.points[2], earth_radius))

\* _slerp(55, -106, -55, 74, 1) has returned the second of two antipodal points.
C15_AntipodalEnd ==
    /\ AtEndpoint(ret)
    /\ ret.points = <<Saskatchewan, AntiSask>>
    /\ ret.t = One
    /\ ret.outcome = "return"
    /\ Close(Forward(ret.latlon, earth_radius), Forward(AntiSask, earth_radius))

\* C16: _slerp interpolates linearly when theta < 0.001 and with the slerp
\* weights otherwise, and so no pair of valid points, antipodal ones
\* included, reaches a division by a zero or near-zero sin(theta): the
\* weights are stable and the call returns.
C16_NoUnstableDivision ==
    (ret.op = "_slerp" /\ ValidPoint(ret.points[1]) /\ ValidPoint(ret.points[2])) =>
        /\ WeightsOf(ret).st = "ok"
        /\ ret.outcome = "return"

\* C18: clear_all_friends leaves the registry empty from any state:
\* get_friends_by_group returns the empty list for every group, and the
\* marker of every friend that was in the registry is detached from the scene.
C18_ClearEmptiesRegistry ==
    [][ret'.op = "clear_all_friends" =>
          /\ friends' = <<>>
          /\ \A group \in AskedGroups \cup FriendGroups : get_friends_by_group(group)' = <<>>
          /\ \A i \in 1..Len(friends) : markers'[friends[i].marker].parent = "None"
          /\ Len(markers') = Len(markers)]_vars

\* clear_all_friends has run on a globe that had friends: none is left and
\* no marker is in the scene.
C18_ClearedGlobe ==
    /\ ret.op = "clear_all_friends"
    /\ friends = <<>>
    /\ Len(markers) >= 2
    /\ \A m \in 1..Len(markers) : markers[m].parent = "None"

\* The position of an element in a list.
IndexOf(list, x) == CHOOSE i \in 1..Len(list) : list[i] = x

\* C19: remove_friend removes exactly the given friend: it is no longer in
\* the registry and its marker is detached, the other friends, their order
\* and their markers are as before; for a friend that is not in the
\* registry nothing changes.
C19_RemoveExactlyTheFriend ==
    [][ret'.op = "remove_friend" =>
          IF InRegistry(ret'.friend)
          THEN /\ \A j \in 1..Len(friends') : friends'[j] # ret'.friend
               /\ markers'[ret'.friend.marker].parent = "None"
               /\ Len(friends') = Len(friends) - 1
               /\ \A i \in 1..Len(friends) :
                      friends[i] # ret'.friend =>
                          friends'[IF i < IndexOf(friends, ret'.friend) THEN i ELSE i - 1]
                              = friends[i]
               /\ Len(markers') = Len(markers)
               /\ \A m \in 1..Len(markers) :
                      m # ret'.friend.marker => markers'[m] = markers[m]
          ELSE friends' = friends /\ markers' = markers]_vars

\* The second of three friends has been removed: the first and the third
\* are left, in this order.
C19_MiddleFriendRemoved ==
    /\ ret.op = "remove_friend"
    /\ ret.friend.marker # None
    /\ markers[ret.friend.marker].parent = "None"
    /\ Len(friends) = 2
    /\ friends[1].marker < ret.friend.marker
    /\ ret.friend.marker < friends[2].marker

\* C20: get_friends_by_group returns exactly the friends in the registry
\* whose group is the requested one, compared case-insensitively, each
\* once and in the order of the registry, after any sequence of add_friend,
\* remove_friend and clear_all_friends; the registry is not modified.
C20_ExactlyTheGroup ==
    [][ret'.op = "get_friends_by_group" =>
          /\ friends' = friends
          /\ markers' = markers
          /\ \A k \in 1..Len(ret'.value) :
                 /\ InRegistry(ret'.value[k])
                 /\ Lower(ret'.value[k].group) = Lower(ret'.group)
          /\ \A i \in 1..Len(friends) :
                 Lower(friends[i].group) = Lower(ret'.group) =>
                     \E k \in 1..Len(ret'.value) : ret'.value[k] = friends[i]
          /\ \A k, l \in 1..Len(ret'.value) :
                 k < l => IndexOf(friends, ret'.value[k]) < IndexOf(friends, ret'.value[l])]_vars

\* get_friends_by_group("Family") has returned a friend of the group
\* "family" while a friend of another group is in the registry and a friend
\* has been removed.
C20_FamilyAmongOthers ==
    /\ ret.op = "get_friends_by_group"
    /\ ret.group = "Family"
    /\ \E k \in 1..Len(ret.value) : ret.value[k].group = "family"
    /\ \E i \in 1..Len(friends) : friends[i].group = "work"
    /\ \E m \in 1..Len(markers) : markers[m].parent = "None"

\* The friends of the registry whose group is the given one, compared as
\* the program compares groups (in lower case).
OfGroup(friend, group) == Lower(friend.group) = Lower(group)

\* C21: show_group(group, show) sets the visibility of the marker of every
\* friend of that group to show and changes nothing else: the registry and
\* its order, the friends' fields, the other fields of the markers and the
\* visibility of the friends of other groups are as before; a friend added
\* later is visible whatever was hidden before.
C21_ShowGroupOnlySetsVisibility ==
    [][/\ ret'.op = "show_group" =>
             /\ friends' = friends
             /\ Len(markers') = Len(markers)
             /\ \A m \in 1..Len(markers) :
                    IF \E i \in 1..Len(friends) :
                          friends[i].marker = m /\ OfGroup(friends[i], ret'.group)
                    THEN markers'[m] = [markers[m] EXCEPT !.visible = ret'.show]
                    ELSE markers'[m] = markers[m]
       /\ (ret'.op = "add_friend" /\ ret'.outcome = "return") =>
             /\ markers'[friends'[ret'.value].marker].visible = TRUE
             /\ \A m \in 1..Len(markers) : markers'[m] = markers[m]]_vars

\* A friend has been added to the group "family" after the group was
\* hidden: the older friend of the group is hidden, the new one is visible.
C21_AddedAfterHide ==
    /\ ret.op = "add_friend"
    /\ ret.outcome = "return"
    /\ friends[ret.value].group = "family"
    /\ markers[friends[ret.value].marker].visible = TRUE
    /\ \E i \in 1..Len(friends) :
          /\ OfGroup(friends[i], "family")
          /\ markers[friends[i].marker].visible = FALSE
    /\ \E i \in 1..Len(friends) :
          /\ friends[i].group = "work"
          /\ markers[friends[i].marker].visible = TRUE

\* C22: no operation of the registry changes a friend in place: a friend
\* that stays in the registry over a call keeps every field, and a friend
\* add_friend appends has the name, latitude, longitude, group and colour
\* the call was given.
C22_FriendsNeverMutated ==
    [][/\ \A i \in 1..Len(friends') : \A j \in 1..Len(friends) :
             friends'[i].marker = friends[j].marker => friends'[i] = friends[j]
       /\ (ret'.op = "add_friend" /\ ret'.outcome = "return") =>
             /\ friends'[ret'.value].name = ret'.name
             /\ friends'[ret'.value].latitude = ret'.points[1][1]
             /\ friends'[ret'.value].longitude = ret'.points[1][2]
             /\ friends'[ret'.value].group = Default(ret'.group, "friends")
             /\ friends'[ret'.value].color = Default(ret'.color, "yellow")
             /\ \A j \in 1..Len(friends) : friends[j].marker # friends'[ret'.value].marker]_vars

\* A friend added with the group "Family" is in the registry, hidden by a
\* show_group, after another friend was removed.
C22_FamilyHiddenAfterRemoval ==
    /\ ret.op = "show_group"
    /\ \E i \in 1..Len(friends) :
          /\ friends[i].group = "Family"
          /\ markers[friends[i].marker].visible = FALSE
    /\ \E m \in 1..Len(markers) : markers[m].parent = "None"

\* C25: every line the TravelRoute manager has created and not cleared is
\* recorded in routes, so that after clear_all_routes the routes list is
\* empty and no line of the manager is attached to the scene.
C25_EveryLineIsRecorded ==
    /\ \A k \in 1..Len(lines) :
          lines[k].parent = "scene" => \E r \in 1..Len(routes) : routes[r].line = k
    /\ ret.op = "clear_all_routes" =>
          /\ routes = <<>>
          /\ \A k \in 1..Len(lines) : lines[k].parent = "None"

\* C23: create_route, create_great_circle_route and measure_distance are
\* idempotent and keep no state between calls: a call made a second time
\* with the same arguments leaves the state the manager holds (its routes
\* and the lines it has put in the scene) as it was after the first call,
\* and ends as the first did.
C23_SecondCallChangesNothing ==
    [][(pending.calls >= 1 /\ pending'.calls = pending.calls + 1) =>
          /\ routes' = routes
          /\ lines' = lines
          /\ ret'.outcome = ret.outcome]_vars

\* The value a record gives to a field, or the documented default.
Supplied(record, key, default) ==
    IF \E k \in DOMAIN record : k = key THEN record[key] ELSE default

\* C24: a Friend loaded from a record without color, group or photo has the
\* color "yellow", the group "friends", the photo path ""; a TravelPhoto
\* loaded from a record without title, description or date has empty
\* strings there; a field the record supplies keeps the supplied value.
C24_MissingFieldsTakeDefaults ==
    /\ (ret.op = "load_friends_from_json" /\ ret.args[1] = "ok") =>
          \A k \in 1..Len(ret.results) :
              /\ friends[ret.results[k]].color
                    = Supplied(ret.args[2].friends[k], "color", "yellow")
              /\ friends[ret.results[k]].group
                    = Supplied(ret.args[2].friends[k], "group", "friends")
              /\ friends[ret.results[k]].photo_path
                    = Supplied(ret.args[2].friends[k], "photo", "")
    /\ (ret.op = "load_photos_from_json" /\ ret.args[1] = "ok") =>
          \A k \in 1..Len(ret.results) :
              ret.results[k] # None =>
                  /\ travel_photos[ret.results[k]].title
                        = Supplied(ret.args[2].travels[k], "title", "")
                  /\ travel_photos[ret.results[k]].description
                        = Supplied(ret.args[2].travels[k], "description", "")
                  /\ travel_photos[ret.results[k]].date
                        = Supplied(ret.args[2].travels[k], "date", "")

\* A file of two friends has been loaded: the record without color, group
\* and photo gave a yellow friend of the group "friends", the complete
\* record kept its values.
C24_DefaultsAndSuppliedLoaded ==
    /\ ret.op = "load_friends_from_json"
    /\ Len(ret.results) = 2
    /\ friends[1].name = "Ann"
    /\ friends[1].color = "yellow" /\ friends[1].group = "friends"
    /\ friends[1].photo_path = ""
    /\ friends[2].name = "Sarah"
    /\ friends[2].color = "Pink" /\ friends[2].group = "college"
    /\ friends[2].photo_path = "photos/sarah.jpg"

\* The request comes with a token the server signed, not yet expired, for a
\* user of the database.
Authenticated(header) ==
    /\ header.given
    /\ header.signed
    /\ ~header.expired
    /\ \E i \in DOMAIN server.users : server.users[i].id = header.user_id

\* The rows of a table a user created, as the set of their positions.
CreatedBy(rows, user_id) == {i \in DOMAIN rows : rows[i].user_id = user_id}

\* The rows of a table other users created.
RowsOfOthers(rows, user_id) ==
    {rows[i] : i \in DOMAIN rows \ CreatedBy(rows, user_id)}

\* C28: ownership isolation of the backend.  A request for travels or
\* friends without a valid token for an existing user is answered 401 and
\* changes nothing.  GET answers with exactly the rows the user of the token
\* created.  DELETE of a row the user created removes that row and no
\* other; DELETE of a row of another user, or of an id no row has, is
\* answered 404 and changes nothing.  No request changes a row of a user
\* other than the one of its token.
C28_OwnershipIsolation ==
    [][ret'.op \in {"get", "create", "delete"} =>
        LET table  == ret'.args[1]
            header == ret'.args[2]
            status == ret'.results[1]
            mine   == CreatedBy(server[table], header.user_id)
        IN  /\ \A other \in Tables \ {table} : server'[other] = server[other]
            /\ server'.users = server.users
            /\ IF ~Authenticated(header)
               THEN status = 401 /\ server' = server
               ELSE /\ RowsOfOthers(server'[table], header.user_id)
                           = RowsOfOthers(server[table], header.user_id)
                    /\ ret'.op = "get" =>
                           /\ status = 200
                           /\ server' = server
                           /\ Len(ret'.results[2]) = Cardinality(mine)
                           /\ {ret'.results[2][i].id : i \in DOMAIN ret'.results[2]}
                                  = {server[table][i].id : i \in mine}
                    /\ ret'.op = "delete" =>
                           IF \E i \in mine : server[table][i].id = ret'.args[3]
                           THEN /\ status = 200
                                /\ {server'[table][i] : i \in DOMAIN server'[table]}
                                       = {server[table][i] : i \in DOMAIN server[table]}
                                             \ {server[table][i] : i \in
                                                   {j \in mine : server[table][j].id
                                                                     = ret'.args[3]}}
                           ELSE status = 404 /\ server' = server
    ]_vars

\* A user asked to delete a travel another user created and was answered
\* 404, the travel still in the table.
C28_ForeignDeleteRefused ==
    /\ ret.op = "delete"
    /\ ret.args[1] = "travels"
    /\ Authenticated(ret.args[2])
    /\ ret.results[1] = 404
    /\ \E i \in DOMAIN server.travels :
           /\ server.travels[i].id = ret.args[3]
           /\ server.travels[i].user_id # ret.args[2].user_id

\* The account a request names collides with an account of the database.
Taken(email, username) ==
    \E i \in DOMAIN server.users :
        \/ server.users[i].email = email
        \/ server.users[i].username = username

OAuthCallbacks ==
    {"auth_google_callback", "auth_discord_callback", "auth_microsoft_callback"}

\* C29: account uniqueness of the backend.  After any requests to
\* /api/register and the OAuth callbacks no two accounts share an e-mail
\* address or a username; a registration with a taken e-mail address or
\* username is answered 409 and creates no account; an OAuth callback
\* creates no duplicate and is answered with the login response.
C29_AccountsUnique ==
    [][/\ \A i, j \in DOMAIN server'.users :
              i # j => /\ server'.users[i].email # server'.users[j].email
                       /\ server'.users[i].username # server'.users[j].username
       /\ (ret'.op = "register" /\ ret'.args[1].email # <<>>
               /\ Taken(ret'.args[1].email, ret'.args[1].username))
              => ret'.results[1] = 409 /\ server' = server
       /\ ret'.op \in OAuthCallbacks => ret'.results[1] = 200
    ]_vars

\* C26: the invariant of the authentication client.  is_authenticated()
\* holds exactly when a token is held; the token is None exactly when the
\* user is None; a set_token whose profile fetch fails does not leave the
\* client authenticated with a saved token.
C26_TokenIffUser ==
    [][/\ is_authenticated(auth') <=> auth'.token # <<>>
       /\ (auth'.token = <<>>) <=> (auth'.user = <<>>)
       /\ (ret'.op = "set_token" /\ ret'.outcome = "raise")
              => ~(is_authenticated(auth') /\ auth'.file = auth'.token)
    ]_vars

\* C27: error handling of the authentication client.  A register the
\* server does not answer with 201, and a login it does not answer with
\* 200, raise and leave token, user and the saved token file as they were.
\* After logout the token and the user are None and the token file is
\* gone, and a client constructed without a token file is unauthenticated.
C27_RejectedLeavesClient ==
    [][/\ (ret'.op = "register" /\ ret'.results[1] # 201)
              => ret'.outcome = "raise" /\ auth' = auth
       /\ (ret'.op = "login" /\ ret'.results[1] # 200)
              => ret'.outcome = "raise" /\ auth' = auth
       /\ ret'.op = "logout"
              => /\ auth'.token = <<>>
                 /\ auth'.user = <<>>
                 /\ auth'.file = <<>>
                 /\ ~is_authenticated(WorldWindAuth(auth'.file, server').auth)
       /\ (ret'.op = "__init__" /\ auth.file = <<>>)
              => ~is_authenticated(auth')
    ]_vars

\* A logged-in client, its token saved, whose login with a wrong password
\* was rejected.
C27_RejectedWhileLoggedIn ==
    /\ ret.op = "login"
    /\ ret.outcome = "raise"
    /\ ret.results[1] = 401
    /\ auth.token # <<>>
    /\ auth.user # <<>>
    /\ auth.file = auth.token

\* C30: the VR session state.  Whenever vr_enabled is true, after the
\* construction or a 'V' key press, vr_system holds the handle of a
\* successful OpenVR initialisation, so that every _update_vr tick polls
\* the poses and _cleanup on Escape shuts OpenVR down; a successful
\* _init_vr reached through 'V' while VR was disabled leaves vr_enabled
\* true, and a failed one leaves it false.
C30_EnabledHoldsHandle ==
    [][/\ vr.vr_enabled => vr.vr_system # 0 /\ vr.running
       /\ vr'.vr_enabled => vr'.vr_system # 0 /\ vr'.running
       /\ (ret'.op = "_update_vr" /\ vr.vr_enabled)
              => vr'.polls = vr.polls + 1
       /\ (ret'.op = "Escape" /\ vr.vr_enabled) => ~vr'.running
       /\ (ret'.op = "V" /\ ret'.results[1] = "handle") => vr'.vr_enabled
       /\ (ret'.op = "V" /\ ret'.results[1] \in {"none", "raise"})
              => ~vr'.vr_enabled
    ]_vars

=============================================================================
